---- MODULE Spec2Model ----
(***************************************************************************)
(* Model of BraviaQuadClient (custom_components/bravia_quad/               *)
(* bravia_quad_client.py): the connection lifecycle, async_send_command    *)
(* with its send lock and Pending Command Table, the typed getters, the    *)
(* notification loop with its callbacks, async_disconnect and the Feature  *)
(* State Cache.                                                            *)
(*                                                                         *)
(* asyncio is cooperative: the code between two awaits runs atomically,    *)
(* so every action below is one such block, from the point where a         *)
(* coroutine is resumed to the next await at which it suspends.            *)
(***************************************************************************)
EXTENDS Integers, Sequences, FiniteSets, TLC

(***************************************************************************)
(* Program constants (const.py, bravia_quad_client.py).                    *)
(***************************************************************************)
CMD_ID_POWER == 3
CMD_ID_VOLUME == 2
CMD_ID_INITIAL == 10
CMD_ID_MAX == 1000000
MAX_VOLUME == 100
MIN_VOLUME == 0
\* number.py
NUMBER_MAX_VOLUME == 100
MAX_REAR_LEVEL == 10
MIN_REAR_LEVEL == -10
MAX_BASS_LEVEL == 10
MIN_BASS_LEVEL == -10
MAX_BASS_LEVEL_NO_SUB == 2
MIN_BASS_LEVEL_NO_SUB == 0
DEFAULT_BASS_LEVEL == 1

FEATURE_POWER == "main.power"
FEATURE_VOLUME == "main.volumestep"
FEATURE_INPUT == "main.input"
FEATURE_REAR_LEVEL == "main.rearvolumestep"
FEATURE_BASS_LEVEL == "main.bassstep"
FEATURE_VOICE_ENHANCER == "audio.voiceenhancer"
FEATURE_SOUND_FIELD == "audio.soundfield"
FEATURE_NIGHT_MODE == "audio.nightmode"
FEATURE_HDMI_CEC == "hdmi.cec"
FEATURE_AUTO_STANDBY == "system.autostandby"
\* A feature name the client has no handler for (const.py FEATURE_AAV).
FEATURE_AAV == "audio.aav"

(***************************************************************************)
(* Bounds of the model.                                                    *)
(***************************************************************************)
\* Concurrent callers of async_send_command.
NumCallers == 2
\* async_send_command calls begun in one behaviour.
MaxCalls == 2
\* async_disconnect calls in one behaviour.
MaxDisconnects == 1
\* Failures the environment injects in one behaviour: a failed connection
\* attempt, a failed drain(), a cancelled caller.
MaxFaults == 1

\* async_listen_for_notifications calls made directly in one behaviour.
MaxListens == 1

\* Reads of the notification loop that return data, run into the read timeout
\* or fail, in one behaviour.
MaxReads == 2
\* Reads in one behaviour of the loop with its full set of callbacks.
MaxDispatchReads == 1
\* Calls of async_set_native_value on the volume entity in one behaviour.
MaxSets == 3
\* Volume notifications the volume entity is handed in one behaviour.
MaxNotifs == 1
\* Changes of the step interval in one behaviour.
MaxIntervalSets == 1
\* Setter calls that are rejected in one behaviour.
MaxRejects == 2
\* JSON objects in one buffer handed to the decoder.
MaxObjs == 3
\* JSON values (or stretches of text that are no JSON) in the data of one read.
MaxChunk == 2
\* register_notification_callback calls in one behaviour.
MaxRegs == 3
\* unregister_notification_callback calls in one behaviour.
MaxUnregs == 1

Callers == 1..NumCallers
\* The features callbacks are registered for.
DispFeatures == {FEATURE_POWER, FEATURE_VOLUME}
\* The call that is in flight in the first state of a behaviour that starts
\* on a client that has been running (InitLoaded).
Earlier == MaxCalls + 1
\* The calls: those begun in the behaviour, and Earlier.
Calls == 1..(MaxCalls + 1)
\* Listener tasks: every task is created by one async_send_command or
\* async_listen_for_notifications call.
Tasks == 1..(MaxCalls + MaxListens + 1)

(***************************************************************************)
(* JSON values as Python sees them after json decoding.  A string is the   *)
(* sequence of its characters, so that str.upper(), int() and str() are    *)
(* computed as Python computes them.                                       *)
(***************************************************************************)
IntV(n) == [t |-> "int", n |-> n, s |-> << >>]
StrV(s) == [t |-> "str", n |-> 0, s |-> s]
NoneV == [t |-> "none", n |-> 0, s |-> << >>]

Digits == <<"0", "1", "2", "3", "4", "5", "6", "7", "8", "9">>
DigitSet == {Digits[i] : i \in 1..10}
DigitVal(ch) == (CHOOSE i \in 1..10 : Digits[i] = ch) - 1
IsSpace(ch) == ch \in {" ", "\n", "\t", "\r"}

\* str.upper(), character by character.
UpperChar(ch) ==
    CASE ch = "a" -> "A" [] ch = "b" -> "B" [] ch = "c" -> "C" [] ch = "d" -> "D"
      [] ch = "e" -> "E" [] ch = "f" -> "F" [] ch = "g" -> "G" [] ch = "h" -> "H"
      [] ch = "i" -> "I" [] ch = "j" -> "J" [] ch = "k" -> "K" [] ch = "l" -> "L"
      [] ch = "m" -> "M" [] ch = "n" -> "N" [] ch = "o" -> "O" [] ch = "p" -> "P"
      [] ch = "q" -> "Q" [] ch = "r" -> "R" [] ch = "s" -> "S" [] ch = "t" -> "T"
      [] ch = "u" -> "U" [] ch = "v" -> "V" [] ch = "w" -> "W" [] ch = "x" -> "X"
      [] ch = "y" -> "Y" [] ch = "z" -> "Z" [] OTHER -> ch
Upper(s) == [i \in 1..Len(s) |-> UpperChar(s[i])]

\* str.strip(): leading and trailing whitespace removed.
RECURSIVE LStrip(_)
LStrip(s) == IF s # << >> /\ IsSpace(Head(s)) THEN LStrip(Tail(s)) ELSE s
RECURSIVE RStrip(_)
RStrip(s) ==
    IF s # << >> /\ IsSpace(s[Len(s)]) THEN RStrip(SubSeq(s, 1, Len(s) - 1)) ELSE s
Strip(s) == RStrip(LStrip(s))

\* The value of a non-empty sequence of decimal digits.
RECURSIVE DigitsValue(_)
DigitsValue(s) ==
    IF s = << >> THEN 0
    ELSE 10 * DigitsValue(SubSeq(s, 1, Len(s) - 1)) + DigitVal(s[Len(s)])
AllDigits(s) == s # << >> /\ \A i \in 1..Len(s) : s[i] \in DigitSet

\* int(str): optional whitespace around an optionally signed decimal literal,
\* ValueError otherwise.
ParseInt(s) ==
    LET b == Strip(s)
        signed == b # << >> /\ b[1] \in {"-", "+"}
        d == IF signed THEN Tail(b) ELSE b
    IN  IF AllDigits(d)
        THEN [ok |-> TRUE,
              n |-> IF signed /\ b[1] = "-" THEN 0 - DigitsValue(d) ELSE DigitsValue(d)]
        ELSE [ok |-> FALSE, n |-> 0]

\* int(value): an int is itself, a string is parsed, None raises TypeError.
PyInt(v) ==
    CASE v.t = "int" -> [ok |-> TRUE, n |-> v.n]
      [] v.t = "str" -> ParseInt(v.s)
      [] OTHER -> [ok |-> FALSE, n |-> 0]

\* str(n) for an integer n.
RECURSIVE NatToStr(_)
NatToStr(n) ==
    IF n < 10 THEN <<Digits[n + 1]>>
    ELSE NatToStr(n \div 10) \o <<Digits[(n % 10) + 1]>>
IntToStr(n) == IF n < 0 THEN <<"-">> \o NatToStr(0 - n) ELSE NatToStr(n)

\* str(value).
PyStr(v) ==
    CASE v.t = "int" -> IntToStr(v.n)
      [] v.t = "str" -> v.s
      [] OTHER -> <<"N", "o", "n", "e">>

ACK == <<"A", "C", "K">>
ON == <<"o", "n">>
OFF == <<"o", "f", "f">>

\* An inbound message: id 0 and feature "" stand for an absent key.
Msg(type, id, feature, value) ==
    [type |-> type, id |-> id, feature |-> feature, value |-> value]
\* The value of lastMsg before any message was processed.
NoMsg == Msg("", 0, "", NoneV)

(***************************************************************************)
(* The Feature State Cache and its update from an inbound message.         *)
(***************************************************************************)
InitialCache ==
    [power |-> OFF, volume |-> 0, input |-> <<"t", "v">>, rear_level |-> 0,
     bass_level |-> DEFAULT_BASS_LEVEL, voice_enhancer |-> <<"u", "p", "o", "f", "f">>,
     sound_field |-> OFF, night_mode |-> OFF, hdmi_cec |-> OFF, auto_standby |-> OFF]

UpdateVolumeState(c, v) ==
    LET r == PyInt(v) IN IF r.ok THEN [c EXCEPT !.volume = r.n] ELSE c

UpdateRearLevelState(c, v) ==
    LET r == PyInt(v)
    IN  IF r.ok /\ MIN_REAR_LEVEL <= r.n /\ r.n <= MAX_REAR_LEVEL
        THEN [c EXCEPT !.rear_level = r.n]
        ELSE c

UpdateBassLevelState(c, v) ==
    LET r == PyInt(v)
    IN  IF r.ok /\ MIN_BASS_LEVEL <= r.n /\ r.n <= MAX_BASS_LEVEL
        THEN [c EXCEPT !.bass_level = r.n]
        ELSE c

\* Variant of IsAck: the comparison without value.upper().
IsAckExact(v) == v.t = "str" /\ v.s = ACK

IsAck(v) == v.t = "str" /\ Upper(v.s) = ACK

UpdateInternalState(c, feature, v) ==
    IF feature = "" THEN c
    ELSE IF IsAck(v) THEN c
    ELSE CASE feature = FEATURE_POWER -> [c EXCEPT !.power = PyStr(v)]
           [] feature = FEATURE_VOLUME -> UpdateVolumeState(c, v)
           [] feature = FEATURE_INPUT -> [c EXCEPT !.input = PyStr(v)]
           [] feature = FEATURE_REAR_LEVEL -> UpdateRearLevelState(c, v)
           [] feature = FEATURE_BASS_LEVEL -> UpdateBassLevelState(c, v)
           [] feature = FEATURE_VOICE_ENHANCER -> [c EXCEPT !.voice_enhancer = PyStr(v)]
           [] feature = FEATURE_SOUND_FIELD -> [c EXCEPT !.sound_field = PyStr(v)]
           [] feature = FEATURE_NIGHT_MODE -> [c EXCEPT !.night_mode = PyStr(v)]
           [] feature = FEATURE_HDMI_CEC -> [c EXCEPT !.hdmi_cec = PyStr(v)]
           [] feature = FEATURE_AUTO_STANDBY -> [c EXCEPT !.auto_standby = PyStr(v)]
           [] OTHER -> c

(***************************************************************************)
(* State of one BraviaQuadClient and of the coroutines that use it.        *)
(***************************************************************************)
VARIABLES
    connected,   \* self._connected
    listening,   \* self._listening
    stream,      \* self._reader/self._writer: "none", "open", "closing", or
                 \* "eof" (open on this side, closed by the peer)
    handle,      \* self._listener_task: a task, or 0 for None
    task,        \* state of every _notification_loop task
    ntasks,      \* listener tasks created so far
    nopen,       \* TCP connections that were opened and not closed
    lpc,         \* where the async_listen_for_notifications call is suspended
    nlisten,     \* async_listen_for_notifications calls begun so far
    lockHolder,  \* the caller inside "async with self._command_lock", or 0
    lockQueue,   \* the callers waiting for self._command_lock, in FIFO order
    counter,     \* self._command_id_counter
    pending,     \* self._pending_responses: a set of <<command id, call>>
    pc,          \* where each caller's async_send_command is suspended
    cur,         \* the call each caller is executing
    ncalls,      \* async_send_command calls begun so far
    callId,      \* command_id of each call (0: not assigned yet)
    fut,         \* response_future of each call
    resp,        \* the id of the message a call's future was resolved with
    outcome,     \* how each call ended ("none": not ended)
    dpc,         \* where async_disconnect is suspended
    dtask,       \* the listener task async_disconnect awaits
    ndisc,       \* async_disconnect calls begun so far
    snap,        \* the calls that were pending when async_disconnect was called
    nfaults,     \* failures injected so far
    wire,        \* the commands handed to self._writer.write, in order
    assigned,    \* the calls in the order _get_next_command_id served them
    base,        \* ids assigned before the first state of the behaviour
    cache,       \* the Feature State Cache
    lastMsg,     \* the last message handed to _process_incoming_message
    reply,       \* the message each call's future was resolved with
    ret,         \* what the typed getter that made each call returned
    callbacks,   \* self._notification_callbacks: feature -> list of callbacks
    gone,        \* per feature, the callbacks that were unregistered
    batch,       \* the decoded values of the current read still to be processed
    cbi,         \* the index of the callback the loop is awaiting, or 0
    hist,        \* the messages the loop has processed, in order
    log,         \* the callback invocations: start, end and raise events
    nreads,      \* reads of the loop that returned or failed so far
    ndropped,    \* pieces of read data _decode_json_stream has discarded
    objs,        \* the messages whose JSON texts make up the buffer to decode
    seps,        \* seps[i]: the text between the i-th object and the next (or the end)
    messages,    \* what _decode_json_stream returned for the buffer
    plain,       \* what it returned for the same objects without separators
    decpc,       \* "idle", "input" (a buffer waits) or "decoded"
    err,         \* err[c]: the exception the last setter call of caller c raised
    nrejects,    \* setter calls that raised ValueError so far
    det,         \* the async_detect_subwoofer call: where it is, what it read and sent
    tc,          \* the async_test_connection call: where it is and what it returned
    setting,     \* setting[c]: the last setter call of caller c and how it ended
    native_value,            \* BraviaQuadVolumeNumber._attr_native_value
    transition_in_progress,  \* ._transition_in_progress
    transition_generation,   \* ._transition_generation
    transition_task,         \* ._transition_task: 0 for None, else the task's generation
    volume_step_interval,    \* client.volume_step_interval, in ms
    tr,          \* tr[g]: the task of generation g and the arguments of its coroutine
    direct,      \* the calls of async_set_volume made by the direct branch
    sent,        \* the calls of client.async_set_volume so far, in order
    clears,      \* the executions of "_transition_in_progress = False", in order
    calls,       \* the calls of async_set_native_value and what each found, in order
    device0,     \* the device's volume when the entity was set up
    removed,     \* async_will_remove_from_hass has run
    nsets,       \* calls of async_set_native_value so far
    nnotifs,     \* notifications handed to the entity so far
    notified,    \* those notifications: whether int() took the value, and the test each met
    nintervals,  \* changes of the step interval so far
    nregs,       \* register_notification_callback calls so far
    nunregs      \* unregister_notification_callback calls so far

clientVars == <<connected, listening, stream, handle, task, ntasks, nopen>>
listenVars == <<lpc, nlisten>>
getVars == <<reply, ret>>
dispVars == <<callbacks, gone, batch, cbi, hist, log, nreads, ndropped, nregs, nunregs>>
decVars == <<objs, seps, messages, plain, decpc>>
typedVars == <<det, tc, setting>>
setVars == <<err, nrejects, typedVars>>
numVars == <<native_value, transition_in_progress, transition_generation, transition_task,
             volume_step_interval, tr, direct, sent, clears, calls, device0, removed,
             nsets, nnotifs, notified, nintervals>>
sideVars == <<decVars, setVars, numVars>>
lockVars == <<lockHolder, lockQueue>>
callVars == <<pc, cur, ncalls, callId, fut, resp, outcome>>
discVars == <<dpc, dtask, ndisc, snap>>
envVars == <<nfaults>>
histVars == <<wire, assigned, base>>
vars == <<clientVars, lockVars, counter, pending, callVars, discVars, envVars,
          histVars, cache, lastMsg, listenVars, getVars, dispVars, sideVars>>
\* The variables of the client.
clientSide == <<clientVars, lockVars, counter, pending, callVars, discVars, envVars,
                histVars, cache, lastMsg, listenVars, getVars, dispVars>>

\* The "id" a caller puts in its command, which the client overwrites: one
\* caller sends power commands, the others volume commands.
SuppliedId(c) == IF c = 1 THEN CMD_ID_POWER ELSE CMD_ID_VOLUME

(***************************************************************************)
(* The Pending Command Table, a dict from command id to future.            *)
(***************************************************************************)
\* self._pending_responses[id] = future of call k
Register(p, id, k) == {e \in p : e[1] # id} \cup {<<id, k>>}
\* self._pending_responses.pop(id, None)
Pop(p, id) == {e \in p : e[1] # id}
\* self._pending_responses.get(id): the call whose future it is, 0 for None
Get(p, id) == IF \E e \in p : e[1] = id THEN (CHOOSE e \in p : e[1] = id)[2] ELSE 0

\* Variant of GetNextCommandId: the counter is returned without the increment.
GetSameCommandId(n) == IF n > CMD_ID_MAX THEN CMD_ID_INITIAL ELSE n
\* Variant of GetNextCommandId: the wrap happens one id early.
GetNextCommandIdEarlyWrap(n) == IF n + 1 >= CMD_ID_MAX THEN CMD_ID_INITIAL ELSE n + 1

\* _get_next_command_id: the new value of the counter, which is the id.
GetNextCommandId(n) == IF n + 1 > CMD_ID_MAX THEN CMD_ID_INITIAL ELSE n + 1

\* Variant of LockFree: async_send_command without the send lock.
NoLock == TRUE

\* "async with self._command_lock" enters without waiting: asyncio.Lock is free
\* and nobody is queued for it.
LockFree == lockHolder = 0 /\ lockQueue = << >>

\* command = dict(command); command["id"] = command_id
WireCommand(c, k, id) == [[id |-> SuppliedId(c), call |-> k, caller |-> c] EXCEPT !.id = id]

Finish(c, k, o) ==
    /\ pc' = [pc EXCEPT ![c] = "idle"]
    /\ outcome' = [outcome EXCEPT ![k] = o]

(***************************************************************************)
(* async_send_command, lines 172-183: the body of the send lock up to the  *)
(* await of drain().  With self._writer None the write raises              *)
(* AttributeError, which no handler of async_send_command catches.         *)
(***************************************************************************)
Critical(c, k) ==
    LET id == GetNextCommandId(counter)
    IN  /\ counter' = id
        /\ callId' = [callId EXCEPT ![k] = id]
        /\ fut' = [fut EXCEPT ![k] = "pending"]
        /\ pending' = Register(pending, id, k)
        /\ assigned' = Append(assigned, k)
        /\ IF stream = "none"
           THEN /\ Finish(c, k, "attrerr")
                /\ lockHolder' = 0
                /\ wire' = wire
           ELSE /\ pc' = [pc EXCEPT ![c] = "drain"]
                /\ outcome' = outcome
                /\ lockHolder' = c
                \* a transport that is closing drops what is written to it
                /\ wire' = IF stream = "open" THEN Append(wire, WireCommand(c, k, id)) ELSE wire

(***************************************************************************)
(* async_send_command, lines 159-169, once the client is connected: the    *)
(* writer check, the listener check (async_listen_for_notifications does   *)
(* not suspend when connected) and the acquisition of the send lock.       *)
(***************************************************************************)
Proceed(c, k) ==
    IF stream = "none"
    THEN /\ Finish(c, k, "connerr")
         /\ UNCHANGED <<handle, task, ntasks, lockVars, counter, pending, callId, fut,
                        wire, assigned>>
    ELSE /\ IF handle = 0 \/ task[handle] = "done"
            THEN /\ ntasks' = ntasks + 1
                 /\ handle' = ntasks + 1
                 /\ task' = [task EXCEPT ![ntasks + 1] = "created"]
            ELSE UNCHANGED <<handle, task, ntasks>>
         /\ IF LockFree
            THEN Critical(c, k) /\ UNCHANGED lockQueue
            ELSE /\ lockQueue' = Append(lockQueue, c)
                 /\ pc' = [pc EXCEPT ![c] = "lock"]
                 /\ UNCHANGED <<lockHolder, counter, pending, callId, fut, outcome, wire,
                                assigned>>

\* async_send_command is called: lines 156-157, then Proceed.
CallWithin(c, most) ==
    /\ pc[c] = "idle"
    /\ ncalls < most
    /\ ncalls' = ncalls + 1
    /\ cur' = [cur EXCEPT ![c] = ncalls + 1]
    /\ IF connected
       THEN /\ Proceed(c, ncalls + 1)
            /\ UNCHANGED <<connected, stream, nopen>>
       ELSE /\ pc' = [pc EXCEPT ![c] = "open"]
            /\ UNCHANGED <<clientVars, lockVars, counter, pending, callId, fut, outcome,
                           wire, assigned>>
    /\ UNCHANGED <<listening, resp, discVars, base, cache, lastMsg>>
    /\ UNCHANGED nfaults
    /\ UNCHANGED listenVars
    /\ UNCHANGED getVars
    /\ UNCHANGED dispVars
    /\ UNCHANGED <<decVars, numVars, err, nrejects>>

\* async_send_command called by a caller of the client.
Call(c) == CallWithin(c, MaxCalls) /\ UNCHANGED typedVars

\* async_connect: open_connection returned, self._reader/_writer are set.
ConnectOpened(c) ==
    /\ pc[c] = "open"
    /\ stream' = "open"
    /\ nopen' = nopen + 1
    /\ pc' = [pc EXCEPT ![c] = "settle"]
    /\ UNCHANGED <<connected, listening, handle, task, ntasks, lockVars, counter, pending,
                   cur, ncalls, callId, fut, resp, outcome, discVars, histVars,
                   cache, lastMsg>>
    /\ UNCHANGED nfaults
    /\ UNCHANGED listenVars
    /\ UNCHANGED getVars
    /\ UNCHANGED dispVars
    /\ UNCHANGED sideVars

\* async_connect: open_connection failed or timed out (OSError), and
\* ConnectionError is raised.
ConnectRaised(c) ==
    /\ nfaults < MaxFaults
    /\ nfaults' = nfaults + 1
    /\ UNCHANGED listenVars
    /\ UNCHANGED getVars
    /\ UNCHANGED dispVars
    /\ UNCHANGED <<decVars, numVars, err, nrejects>>
    /\ pc[c] = "open"
    /\ connected' = FALSE
    /\ Finish(c, cur[c], "connerr")
    /\ UNCHANGED <<listening, stream, nopen, handle, task, ntasks, lockVars, counter,
                   pending, cur, ncalls, callId, fut, resp, discVars, histVars,
                   cache, lastMsg>>

\* async_connect, called by async_send_command, has failed.
ConnectFailed(c) == ConnectRaised(c) /\ UNCHANGED typedVars

\* async_connect: the stabilization sleep is over; async_send_command goes on.
ConnectStable(c) ==
    /\ pc[c] = "settle"
    /\ connected' = TRUE
    /\ Proceed(c, cur[c])
    /\ UNCHANGED <<listening, stream, nopen, cur, ncalls, resp, discVars, base,
                   cache, lastMsg>>
    /\ UNCHANGED nfaults
    /\ UNCHANGED listenVars
    /\ UNCHANGED getVars
    /\ UNCHANGED dispVars
    /\ UNCHANGED sideVars

\* The send lock is handed to the first waiter.
LockAcquired(c) ==
    /\ pc[c] = "lock"
    /\ lockHolder = 0
    /\ lockQueue # << >> /\ Head(lockQueue) = c
    /\ lockQueue' = Tail(lockQueue)
    /\ Critical(c, cur[c])
    /\ UNCHANGED <<clientVars, cur, ncalls, resp, discVars, base, cache, lastMsg>>
    /\ UNCHANGED nfaults
    /\ UNCHANGED listenVars
    /\ UNCHANGED getVars
    /\ UNCHANGED dispVars
    /\ UNCHANGED sideVars

\* drain() returned: the lock is released, wait_for(response_future) begins.
DrainDone(c) ==
    /\ pc[c] = "drain"
    /\ lockHolder' = 0
    /\ pc' = [pc EXCEPT ![c] = "wait"]
    /\ UNCHANGED <<clientVars, lockQueue, counter, pending, cur, ncalls, callId,
                   fut, resp, outcome, discVars, histVars, cache, lastMsg>>
    /\ UNCHANGED nfaults
    /\ UNCHANGED listenVars
    /\ UNCHANGED getVars
    /\ UNCHANGED dispVars
    /\ UNCHANGED sideVars

\* drain() raised OSError: lines 184-188.
DrainFailed(c) ==
    /\ nfaults < MaxFaults
    /\ nfaults' = nfaults + 1
    /\ UNCHANGED listenVars
    /\ UNCHANGED getVars
    /\ UNCHANGED dispVars
    /\ UNCHANGED sideVars
    /\ pc[c] = "drain"
    /\ lockHolder' = 0
    /\ pending' = Pop(pending, callId[cur[c]])
    /\ Finish(c, cur[c], "connerr")
    /\ UNCHANGED <<clientVars, lockQueue, counter, cur, ncalls, callId, fut,
                   resp, discVars, histVars, cache, lastMsg>>

\* wait_for returned the future's result or raised its exception: lines 197-201.
Returned(c) ==
    /\ pc[c] = "wait"
    /\ fut[cur[c]] \in {"result", "exception"}
    /\ pending' = Pop(pending, callId[cur[c]])
    /\ Finish(c, cur[c], IF fut[cur[c]] = "result" THEN "response" ELSE "connerr")
    /\ UNCHANGED <<clientVars, lockVars, counter, cur, ncalls, callId, fut,
                   resp, discVars, histVars, lastMsg>>
    /\ UNCHANGED nfaults
    /\ UNCHANGED listenVars
    /\ UNCHANGED reply
    /\ UNCHANGED dispVars
    /\ UNCHANGED <<decVars, numVars, err, nrejects>>

\* async_send_command, called directly, returns or raises.
Resume(c) == Returned(c) /\ UNCHANGED <<cache, ret, typedVars>>

\* Variant of Timeout: wait_for without a timeout never raises TimeoutError.
WaitWithoutTimeout(c) ==
    /\ pc[c] = "wait"
    /\ FALSE
    /\ UNCHANGED vars

\* Variant of Timeout: the timeout path without the finally that pops the entry.
TimeoutNoPop(c) ==
    /\ pc[c] = "wait"
    /\ fut[cur[c]] = "pending"
    /\ fut' = [fut EXCEPT ![cur[c]] = "cancelled"]
    /\ Finish(c, cur[c], "noresponse")
    /\ UNCHANGED <<clientVars, lockVars, counter, pending, cur, ncalls, callId,
                   resp, discVars, histVars, cache, lastMsg>>
    /\ UNCHANGED nfaults
    /\ UNCHANGED listenVars
    /\ UNCHANGED getVars
    /\ UNCHANGED dispVars
    /\ UNCHANGED sideVars

\* wait_for timed out (the future is cancelled): lines 192-196, 199-201.
TimedOut(c) ==
    /\ pc[c] = "wait"
    /\ fut[cur[c]] = "pending"
    /\ fut' = [fut EXCEPT ![cur[c]] = "cancelled"]
    /\ pending' = Pop(pending, callId[cur[c]])
    /\ Finish(c, cur[c], "noresponse")
    /\ UNCHANGED <<clientVars, lockVars, counter, cur, ncalls, callId,
                   resp, discVars, histVars, lastMsg>>
    /\ UNCHANGED nfaults
    /\ UNCHANGED listenVars
    /\ UNCHANGED reply
    /\ UNCHANGED dispVars
    /\ UNCHANGED <<decVars, numVars, err, nrejects>>

\* async_send_command, called directly, returns None.
Timeout(c) == TimedOut(c) /\ UNCHANGED <<cache, ret, typedVars>>

\* The task running async_send_command is cancelled at the await it is
\* suspended in: CancelledError passes "except OSError", and only the second
\* try statement (lines 190-201) has the finally that pops the entry.
CancelCall(c) ==
    /\ nfaults < MaxFaults
    /\ nfaults' = nfaults + 1
    /\ UNCHANGED listenVars
    /\ UNCHANGED getVars
    /\ UNCHANGED dispVars
    /\ UNCHANGED sideVars
    /\ pc[c] \in {"open", "settle", "lock", "drain", "wait"}
    /\ Finish(c, cur[c], "cancelled")
    /\ lockQueue' = IF pc[c] = "lock" THEN SelectSeq(lockQueue, LAMBDA x : x # c)
                    ELSE lockQueue
    /\ lockHolder' = IF pc[c] = "drain" THEN 0 ELSE lockHolder
    /\ fut' = IF pc[c] = "wait" /\ fut[cur[c]] = "pending"
              THEN [fut EXCEPT ![cur[c]] = "cancelled"] ELSE fut
    /\ pending' = IF pc[c] = "wait" THEN Pop(pending, callId[cur[c]]) ELSE pending
    /\ UNCHANGED <<clientVars, counter, cur, ncalls, callId, resp, discVars,
                   histVars, cache, lastMsg>>

(***************************************************************************)
(* The setters with a range: async_set_volume, async_set_rear_level and    *)
(* async_set_bass_level.                                                   *)
(***************************************************************************)
RangedFeatures == {FEATURE_VOLUME, FEATURE_REAR_LEVEL, FEATURE_BASS_LEVEL}
\* Variant of the test: every value passes.
AnyValue(f, v) == TRUE
\* The negation of the test the setter of feature f begins with.
InRange(f, v) ==
    CASE f = FEATURE_VOLUME -> ~(v < MIN_VOLUME \/ v > MAX_VOLUME)
      [] f = FEATURE_REAR_LEVEL -> ~(v < MIN_REAR_LEVEL \/ v > MAX_REAR_LEVEL)
      [] f = FEATURE_BASS_LEVEL -> ~(v < MIN_BASS_LEVEL \/ v > MAX_BASS_LEVEL)
\* The async_send_command call that was just made has raised already.
RaisedAtOnce(c) == pc'[c] = "idle"

\* 'response.get("type") == "result" and response.get("value") == "ACK"'
Accepted(m) == m.type = "result" /\ IsAckExact(m.value)

\* The field of the cache that holds feature f.
CacheField(ch, f) ==
    CASE f = FEATURE_POWER -> ch.power
      [] f = FEATURE_VOLUME -> ch.volume
      [] f = FEATURE_REAR_LEVEL -> ch.rear_level
      [] f = FEATURE_BASS_LEVEL -> ch.bass_level
\* A setter of caller c has built its command for feature f with value v and
\* calls async_send_command.
SetSend(c, f, v) ==
    /\ CallWithin(c, MaxCalls)
    /\ UNCHANGED <<det, tc>>
    /\ setting' = [setting EXCEPT ![c] = [f |-> f, v |-> v, k |-> ncalls + 1,
                                          ret |-> IF RaisedAtOnce(c) THEN "raise" ELSE "none",
                                          before |-> CacheField(cache, f),
                                          after |-> CacheField(cache, f)]]
\* The setter of feature f is called with value v: it raises ValueError, or
\* builds its command and calls async_send_command.
SetCall(c, f, v) ==
    /\ pc[c] = "idle"
    /\ SuppliedId(c) = CMD_ID_VOLUME
    /\ IF InRange(f, v)
       THEN SetSend(c, f, v)
       ELSE /\ nrejects < MaxRejects
            /\ nrejects' = nrejects + 1
            /\ err' = [err EXCEPT ![c] = "ValueError"]
            /\ UNCHANGED <<clientVars, lockVars, counter, pending, callVars, discVars,
                           envVars, histVars, cache, lastMsg, listenVars, getVars,
                           dispVars, decVars, numVars, typedVars>>

\* async_set_power(state): lines 205-211.
SetPowerCall(c, state) ==
    /\ pc[c] = "idle"
    /\ SuppliedId(c) = CMD_ID_POWER
    /\ SetSend(c, FEATURE_POWER, state)

\* "self._power_state = state", "self._volume = volume", ...
SetStore(ch, f, v) ==
    CASE f = FEATURE_POWER -> [ch EXCEPT !.power = v]
      [] f = FEATURE_VOLUME -> [ch EXCEPT !.volume = v]
      [] f = FEATURE_REAR_LEVEL -> [ch EXCEPT !.rear_level = v]
      [] f = FEATURE_BASS_LEVEL -> [ch EXCEPT !.bass_level = v]

\* The setter of caller c ends with r, the cache being ch.
SetEnd(c, r, ch) ==
    setting' = [setting EXCEPT ![c].ret = r, ![c].after = CacheField(ch, setting[c].f)]

\* async_send_command returned a response to the setter or raised: the
\* lines after the await, e.g. 213-220.
SetterResume(c) ==
    /\ setting[c].k = cur[c] /\ setting[c].ret = "none"
    /\ Returned(c)
    /\ UNCHANGED <<ret, det, tc>>
    /\ IF fut[cur[c]] = "result"
       THEN IF Accepted(reply[cur[c]])
            THEN /\ cache' = SetStore(cache, setting[c].f, setting[c].v)
                 /\ SetEnd(c, "true", cache')
            ELSE /\ cache' = cache
                 /\ SetEnd(c, "false", cache)
       ELSE /\ cache' = cache
            /\ SetEnd(c, "raise", cache)

\* async_send_command returned None to the setter.
SetterTimeout(c) ==
    /\ setting[c].k = cur[c] /\ setting[c].ret = "none"
    /\ TimedOut(c)
    /\ UNCHANGED <<cache, ret, det, tc>>
    /\ SetEnd(c, "false", cache)

(***************************************************************************)
(* The typed getters: async_send_command, then the reply is inspected and  *)
(* stored.  Caller 1 calls async_get_power, the others async_get_volume;   *)
(* the other text getters are written as async_get_power is, the other     *)
(* level getters as async_get_volume is.                                   *)
(***************************************************************************)
GetterFeature(c) == IF c = 1 THEN FEATURE_POWER ELSE FEATURE_VOLUME

\* response.get("value", default), kept as it came (a value of NoneV stands
\* for a message without "value").
RawValue(v, default) ==
    CASE v.t = "none" -> default
      [] v.t = "str" -> v.s
      [] OTHER -> v.n

\* async_get_power, lines 254-261: the cache after the getter has looked at
\* message m.
GetPowerStore(ch, m) ==
    IF m.type = "result" /\ m.feature = FEATURE_POWER
    THEN [ch EXCEPT !.power = RawValue(m.value, OFF)]
    ELSE ch

\* async_get_volume, lines 272-284.
GetVolumeStore(ch, m) ==
    IF m.type = "result" /\ m.feature = FEATURE_VOLUME
    THEN LET r == PyInt(IF m.value.t = "none" THEN IntV(0) ELSE m.value)
         IN  IF r.ok /\ MIN_VOLUME <= r.n /\ r.n <= MAX_VOLUME
             THEN [ch EXCEPT !.volume = r.n]
             ELSE ch
    ELSE ch

\* Variant of GetterStore: the getter returns what is cached and stores nothing.
GetterStoreNothing(ch, c, m) == ch

\* The cache after the getter of caller c has looked at the response m.
GetterStore(ch, c, m) == IF c = 1 THEN GetPowerStore(ch, m) ELSE GetVolumeStore(ch, m)

\* "return self._power_state" / "return self._volume"
GetterValue(ch, c) == IF c = 1 THEN StrV(ch.power) ELSE IntV(ch.volume)

\* async_send_command returned a response or raised: the getter stores and
\* returns, or lets the exception pass.
GetterResume(c) ==
    /\ Returned(c)
    /\ UNCHANGED typedVars
    /\ IF fut[cur[c]] = "result"
       THEN /\ cache' = GetterStore(cache, c, reply[cur[c]])
            /\ ret' = [ret EXCEPT ![cur[c]] = GetterValue(cache', c)]
       ELSE UNCHANGED <<cache, ret>>

\* async_send_command returned None: the getter returns what is cached.
GetterTimeout(c) ==
    /\ TimedOut(c)
    /\ UNCHANGED typedVars
    /\ cache' = cache
    /\ ret' = [ret EXCEPT ![cur[c]] = GetterValue(cache, c)]

(***************************************************************************)
(* async_detect_subwoofer, called by the last caller: async_get_bass_level, *)
(* then up to two set commands.  No await lies between the return of one    *)
(* async_send_command and the call of the next, so the states "probe0" and  *)
(* "revert0" are left before the loop runs (Undivided).                     *)
(***************************************************************************)
DetectCaller == NumCallers
\* test_value
TestValue == 0 - 1

\* async_get_bass_level, lines 591-603: the cache after the getter has
\* looked at message m.
GetBassLevelStore(ch, m) ==
    IF m.type = "result" /\ m.feature = FEATURE_BASS_LEVEL
    THEN LET r == PyInt(IF m.value.t = "none" THEN IntV(DEFAULT_BASS_LEVEL) ELSE m.value)
         IN  IF r.ok /\ MIN_BASS_LEVEL <= r.n /\ r.n <= MAX_BASS_LEVEL
             THEN [ch EXCEPT !.bass_level = r.n]
             ELSE ch
    ELSE ch

\* Variant of NeedsProbe: the probe is made whatever the level.
AlwaysProbe(level) == TRUE
\* The negation of the test of lines 616-619.
NeedsProbe(level) == ~(level < MIN_BASS_LEVEL_NO_SUB \/ level > MAX_BASS_LEVEL_NO_SUB)

\* The call ends: it returns r ("true"/"false") or lets an exception pass
\* ("raise"), with bass the cached bass level at that moment.
DetectEnd(r, bass) == det' = [det EXCEPT !.pc = "done", !.ret = r, !.bass = bass]

\* async_get_bass_level has returned level, the cache being ch: lines 615-624.
DetectGot(ch) ==
    IF NeedsProbe(ch.bass_level)
    THEN det' = [det EXCEPT !.pc = "probe0", !.level = ch.bass_level]
    ELSE det' = [det EXCEPT !.pc = "done", !.ret = "true", !.level = ch.bass_level,
                            !.bass = ch.bass_level]

\* async_detect_subwoofer is called: async_get_bass_level sends its command.
DetectCall ==
    /\ UNCHANGED <<tc, setting>>
    /\ det.pc = "idle"
    /\ CallWithin(DetectCaller, MaxCalls + 1)
    /\ det' = [det EXCEPT !.pc = IF RaisedAtOnce(DetectCaller) THEN "done" ELSE "get",
                          !.ret = IF RaisedAtOnce(DetectCaller) THEN "raise" ELSE @,
                          !.get = ncalls + 1]

\* The get command is answered or has failed.
DetectGetResume ==
    /\ UNCHANGED <<tc, setting>>
    /\ det.pc = "get"
    /\ Returned(DetectCaller)
    /\ UNCHANGED ret
    /\ IF fut[cur[DetectCaller]] = "result"
       THEN /\ cache' = GetBassLevelStore(cache, reply[cur[DetectCaller]])
            /\ DetectGot(cache')
       ELSE /\ cache' = cache
            /\ DetectEnd("raise", cache.bass_level)

\* The get command is not answered in time: the getter returns what is cached.
DetectGetTimeout ==
    /\ UNCHANGED <<tc, setting>>
    /\ det.pc = "get"
    /\ TimedOut(DetectCaller)
    /\ UNCHANGED <<cache, ret>>
    /\ DetectGot(cache)

\* Lines 627-634: the set command with test_value.
DetectProbe ==
    /\ UNCHANGED <<tc, setting>>
    /\ det.pc = "probe0"
    /\ CallWithin(DetectCaller, MaxCalls + 1)
    /\ det' = [det EXCEPT !.pc = IF RaisedAtOnce(DetectCaller) THEN "done" ELSE "probe",
                          !.ret = IF RaisedAtOnce(DetectCaller) THEN "raise" ELSE @,
                          !.probe = ncalls + 1,
                          !.sets = Append(@, TestValue)]

\* The probe is answered or has failed: lines 636-660 up to the revert command.
DetectProbeResume ==
    /\ UNCHANGED <<tc, setting>>
    /\ det.pc = "probe"
    /\ Returned(DetectCaller)
    /\ UNCHANGED <<cache, ret>>
    /\ IF fut[cur[DetectCaller]] = "result"
       THEN IF Accepted(reply[cur[DetectCaller]])
            THEN det' = [det EXCEPT !.pc = "revert0"]
            ELSE DetectEnd("false", cache.bass_level)
       ELSE DetectEnd("raise", cache.bass_level)

\* The probe is not answered in time: response is None.
DetectProbeTimeout ==
    /\ UNCHANGED <<tc, setting>>
    /\ det.pc = "probe"
    /\ TimedOut(DetectCaller)
    /\ UNCHANGED <<cache, ret>>
    /\ DetectEnd("false", cache.bass_level)

\* Lines 648-654: the set command with current_level.
DetectRevert ==
    /\ UNCHANGED <<tc, setting>>
    /\ det.pc = "revert0"
    /\ CallWithin(DetectCaller, MaxCalls + 1)
    /\ det' = [det EXCEPT !.pc = IF RaisedAtOnce(DetectCaller) THEN "done" ELSE "revert",
                          !.ret = IF RaisedAtOnce(DetectCaller) THEN "raise" ELSE @,
                          !.revert = ncalls + 1,
                          !.sets = Append(@, det.level)]

\* The revert command is answered or has failed: lines 655-656.
DetectRevertResume ==
    /\ UNCHANGED <<tc, setting>>
    /\ det.pc = "revert"
    /\ Returned(DetectCaller)
    /\ UNCHANGED ret
    /\ IF fut[cur[DetectCaller]] = "result"
       THEN /\ cache' = [cache EXCEPT !.bass_level = det.level]
            /\ DetectEnd("true", det.level)
       ELSE /\ cache' = cache
            /\ DetectEnd("raise", cache.bass_level)

\* The revert command is not answered in time: lines 655-656 all the same.
DetectRevertTimeout ==
    /\ UNCHANGED <<tc, setting>>
    /\ det.pc = "revert"
    /\ TimedOut(DetectCaller)
    /\ UNCHANGED ret
    /\ cache' = [cache EXCEPT !.bass_level = det.level]
    /\ DetectEnd("true", det.level)

\* No coroutine stands between the return of one command and the next call.
Undivided == det.pc \notin {"probe0", "revert0"}

(***************************************************************************)
(* async_test_connection, called by the first caller.  When the client is  *)
(* not connected it awaits async_connect itself, outside its try; the      *)
(* async_send_command it then calls finds the client connected and goes on *)
(* at the writer check without another await, so the call is counted from  *)
(* the start (own tells who awaits the connection).                        *)
(***************************************************************************)
TestCaller == NumCallers - 1

\* Variant of TestAccepts: any result counts.
AnyResult(m) == m.type = "result"
\* 'response.get("type") == "result" and response.get("feature") == FEATURE_POWER'
TestAccepts(m) == m.type = "result" /\ m.feature = FEATURE_POWER

\* async_test_connection ends: it returns r or lets an exception pass.
TestEnd(r) == tc' = [tc EXCEPT !.pc = "done", !.ret = r]

\* async_test_connection is called: lines 130-139.
TestCall ==
    /\ tc.pc = "idle"
    /\ CallWithin(TestCaller, MaxCalls)
    /\ UNCHANGED <<det, setting>>
    /\ tc' = [pc |-> IF RaisedAtOnce(TestCaller) THEN "done" ELSE "run",
              ret |-> IF RaisedAtOnce(TestCaller) THEN "false" ELSE "none",
              k |-> ncalls + 1,
              own |-> ~connected]

\* The async_connect that async_test_connection awaits fails: line 131 is
\* outside the try statement.
TestConnectFailed ==
    /\ tc.pc = "run"
    /\ ConnectRaised(TestCaller)
    /\ UNCHANGED <<det, setting>>
    /\ TestEnd("raise")

\* async_send_command returned a response or raised the exception of its
\* future (ConnectionError): lines 141-150.
TestResume ==
    /\ tc.pc = "run"
    /\ Returned(TestCaller)
    /\ UNCHANGED <<ret, det, setting>>
    /\ IF fut[tc.k] = "result" /\ TestAccepts(reply[tc.k])
       THEN /\ cache' = [cache EXCEPT !.power = RawValue(reply[tc.k].value, OFF)]
            /\ TestEnd("true")
       ELSE /\ cache' = cache
            /\ TestEnd("false")

\* async_send_command returned None.
TestTimeout ==
    /\ tc.pc = "run"
    /\ TimedOut(TestCaller)
    /\ UNCHANGED <<cache, ret, det, setting>>
    /\ TestEnd("false")

\* async_send_command has raised before its wait: ConnectionError is caught
\* (lines 148-150), AttributeError and CancelledError pass.
TestRaised ==
    /\ tc.pc = "run"
    /\ pc[TestCaller] = "idle"
    /\ TestEnd(IF outcome[tc.k] = "connerr" THEN "false" ELSE "raise")
    /\ UNCHANGED <<clientSide, decVars, numVars, err, nrejects, det, setting>>

(***************************************************************************)
(* The notification loop and the processing of inbound messages.           *)
(***************************************************************************)
\* Variant of ResolveTarget: a result resolves a pending future whatever its id.
ResolveAnyPending(m) ==
    LET ks == {e[2] : e \in {x \in pending : fut[x[2]] = "pending"}}
    IN  IF ks # {} THEN CHOOSE k \in ks : TRUE ELSE 0

\* _resolve_pending_response: the call whose future the message resolves, 0
\* when there is none (no id, no entry, or a future that is already done).
ResolveTarget(m) ==
    LET k == Get(pending, m.id)
    IN  IF m.id # 0 /\ k # 0 /\ fut[k] = "pending" THEN k ELSE 0

\* Variant of ProcessIncomingMessage: only notifications update the cache.
ProcessUpdatingOnNotify(m) ==
    LET k == IF m.type = "result" THEN ResolveTarget(m) ELSE 0
    IN  /\ fut' = IF k # 0 THEN [fut EXCEPT ![k] = "result"] ELSE fut
        /\ resp' = IF k # 0 THEN [resp EXCEPT ![k] = m.id] ELSE resp
        /\ reply' = IF k # 0 THEN [reply EXCEPT ![k] = m] ELSE reply
        /\ cache' = IF m.type = "notify"
                    THEN UpdateInternalState(cache, m.feature, m.value) ELSE cache

\* _process_incoming_message (callbacks are not part of this state).
ProcessIncomingMessage(m) ==
    LET k == IF m.type = "result" THEN ResolveTarget(m) ELSE 0
    IN  /\ fut' = IF k # 0 THEN [fut EXCEPT ![k] = "result"] ELSE fut
        /\ resp' = IF k # 0 THEN [resp EXCEPT ![k] = m.id] ELSE resp
        /\ reply' = IF k # 0 THEN [reply EXCEPT ![k] = m] ELSE reply
        /\ cache' = UpdateInternalState(cache, m.feature, m.value)

\* What the device may send: a result for any command id the client has used,
\* for an id it never used, or without id, and an unsolicited notification.
ReplyIds == {callId[k] : k \in Calls} \cup {0, CMD_ID_POWER}
DeviceMsgs ==
    {Msg("result", i, FEATURE_POWER, StrV(ON)) : i \in ReplyIds}
      \cup {Msg("notify", 0, FEATURE_POWER, StrV(ON))}

\* "while self._listening and self._connected" and "if not self._reader: break"
LoopGoesOn == listening /\ connected /\ stream # "none"

\* The task starts: self._listening = True, then the loop test.
ListenerRun(t) ==
    /\ task[t] = "created"
    /\ IF connected /\ stream # "none"
       THEN listening' = TRUE /\ task' = [task EXCEPT ![t] = "reading"]
       ELSE listening' = FALSE /\ task' = [task EXCEPT ![t] = "done"]
    /\ UNCHANGED <<connected, stream, nopen, handle, ntasks, lockVars, counter, pending, callVars,
                   discVars, histVars, cache, lastMsg>>
    /\ UNCHANGED nfaults
    /\ UNCHANGED listenVars
    /\ UNCHANGED getVars
    /\ UNCHANGED dispVars
    /\ UNCHANGED sideVars

\* read() returned one message: it is processed, then the loop test.
ListenerData(t, m) ==
    /\ task[t] = "reading"
    /\ stream = "open"
    /\ ProcessIncomingMessage(m)
    /\ IF listening /\ connected
       THEN UNCHANGED <<listening, task>>
       ELSE listening' = FALSE /\ task' = [task EXCEPT ![t] = "done"]
    /\ UNCHANGED <<connected, stream, nopen, handle, ntasks, lockVars, counter, pending, pc, cur,
                   ncalls, callId, outcome, discVars, histVars, lastMsg>>
    /\ UNCHANGED nfaults
    /\ UNCHANGED listenVars
    /\ UNCHANGED ret
    /\ UNCHANGED dispVars
    /\ UNCHANGED sideVars

\* read() timed out, returned nothing or raised OSError, and the loop test
\* fails: the loop ends, its finally clears self._listening.
ListenerExit(t) ==
    /\ task[t] = "reading"
    /\ ~LoopGoesOn
    /\ listening' = FALSE
    /\ task' = [task EXCEPT ![t] = "done"]
    /\ UNCHANGED <<connected, stream, nopen, handle, ntasks, lockVars, counter, pending, callVars,
                   discVars, histVars, cache, lastMsg>>
    /\ UNCHANGED nfaults
    /\ UNCHANGED listenVars
    /\ UNCHANGED getVars
    /\ UNCHANGED dispVars
    /\ UNCHANGED sideVars

\* A cancelled task ends: one that had started runs its finally, one that was
\* cancelled before its first step runs nothing.
ListenerCancelled(t) ==
    /\ task[t] \in {"cancelling", "cancelling0"}
    /\ listening' = IF task[t] = "cancelling" THEN FALSE ELSE listening
    /\ task' = [task EXCEPT ![t] = "done"]
    /\ UNCHANGED <<connected, stream, nopen, handle, ntasks, lockVars, counter, pending, callVars,
                   discVars, histVars, cache, lastMsg>>
    /\ UNCHANGED nfaults
    /\ UNCHANGED listenVars
    /\ UNCHANGED getVars
    /\ UNCHANGED dispVars
    /\ UNCHANGED sideVars

\* A loop calls read() on the StreamReader another loop is waiting on:
\* StreamReader raises RuntimeError, which the loop does not catch, and the
\* finally clears self._listening.
ListenerClash(t) ==
    /\ task[t] = "reading"
    /\ stream # "none"
    /\ \E u \in Tasks : u # t /\ task[u] = "reading"
    /\ listening' = FALSE
    /\ task' = [task EXCEPT ![t] = "done"]
    /\ UNCHANGED <<connected, stream, nopen, handle, ntasks, lockVars, counter, pending, callVars,
                   discVars, histVars, cache, lastMsg>>
    /\ UNCHANGED nfaults
    /\ UNCHANGED listenVars
    /\ UNCHANGED getVars
    /\ UNCHANGED dispVars
    /\ UNCHANGED sideVars

(***************************************************************************)
(* The notification loop with callbacks: one read, decoded and processed   *)
(* value by value up to the next await at which the loop suspends.         *)
(***************************************************************************)
\* What one read delivers, piece by piece: a JSON object, a JSON value that is
\* not an object and is true in Python (such as [1] or 5), a JSON value that
\* is false in Python (such as {} or 0), or text that is not JSON.
Obj(m) == [js |-> "object", m |-> m]
NonObj == [js |-> "nonobject", m |-> NoMsg]
Falsy == [js |-> "falsy", m |-> NoMsg]
Garbage == [js |-> "garbage", m |-> NoMsg]

\* Variant of _decode_json_stream: a decoder that skips the text it cannot
\* decode and goes on with the values behind it.
DecodeSkipInvalid(chunk) == SelectSeq(chunk, LAMBDA x : x.js # "garbage")
\* _decode_json_stream: the values decoded before the first piece raw_decode
\* fails on.
RECURSIVE DecodeJsonStream(_)
DecodeJsonStream(chunk) ==
    IF chunk = << >> \/ Head(chunk).js = "garbage" THEN << >>
    ELSE <<Head(chunk)>> \o DecodeJsonStream(Tail(chunk))

(***************************************************************************)
(* _decode_json_stream, character by character.  A buffer is a sequence of *)
(* characters; the JSON text of message m is "{" m "}".                    *)
(***************************************************************************)
\* The messages a buffer is made of, each a single character.
TextMsgs == {"a", "b"}
\* json.dumps without spaces.
ObjectText(m) == <<"{", m, "}">>
\* decoder.raw_decode(data, idx): the value that starts exactly at idx, and
\* the index behind it; JSONDecodeError when no value starts there (white
\* space at idx included).
RawDecode(data, idx) ==
    IF /\ idx + 2 <= Len(data)
       /\ data[idx] = "{"
       /\ data[idx + 1] \in TextMsgs
       /\ data[idx + 2] = "}"
    THEN [ok |-> TRUE, message |-> data[idx + 1], end |-> idx + 3]
    ELSE [ok |-> FALSE, message |-> "", end |-> idx]
\* Variant of the inner loop: no white space is skipped.
NoSkip(data, idx) == idx
\* "while idx < length and data[idx].isspace(): idx += 1"
RECURSIVE SkipSpace(_, _)
SkipSpace(data, idx) ==
    IF idx <= Len(data) /\ IsSpace(data[idx]) THEN SkipSpace(data, idx + 1) ELSE idx
\* The outer loop from index idx on, with the messages decoded so far.
RECURSIVE DecodeFrom(_, _, _)
DecodeFrom(data, idx, msgs) ==
    LET i == SkipSpace(data, idx)
    IN  IF i > Len(data) THEN msgs
        ELSE LET r == RawDecode(data, i)
             IN  IF r.ok THEN DecodeFrom(data, r.end, Append(msgs, r.message))
                 ELSE msgs
\* _decode_json_stream(data)
DecodeJsonText(data) == IF data = << >> THEN << >> ELSE DecodeFrom(data, 1, << >>)

\* The buffer: the texts of the objects os, the i-th followed by ss[i].
RECURSIVE Buffer(_, _)
Buffer(os, ss) ==
    IF os = << >> THEN << >>
    ELSE ObjectText(Head(os)) \o Head(ss) \o Buffer(Tail(os), Tail(ss))
\* The buffer is decoded, and so is the buffer of the same objects with
\* nothing between them.
DecodeBuffer ==
    /\ decpc = "input"
    /\ decpc' = "decoded"
    /\ messages' = DecodeJsonText(Buffer(objs, seps))
    /\ plain' = DecodeJsonText(Buffer(objs, [i \in 1..Len(objs) |-> << >>]))
    /\ UNCHANGED <<objs, seps>>
    /\ UNCHANGED <<clientVars, lockVars, counter, pending, callVars, discVars, envVars,
                   histVars, cache, lastMsg, listenVars, getVars, dispVars, setVars,
                   numVars>>

\* The callbacks of the model: a plain function that returns, a coroutine
\* function that suspends before it returns, a plain function that raises
\* ValueError and one that raises KeyError.
Handles == {"cb_sync", "cb_async", "cb_value_error", "cb_key_error"}
\* asyncio.iscoroutinefunction(callback)
IsCoroutine(h) == h = "cb_async"
\* "except (TypeError, ValueError, AttributeError)" catches the first kind only.
Raises(h) ==
    CASE h = "cb_value_error" -> "caught"
      [] h = "cb_key_error" -> "uncaught"
      [] OTHER -> "none"

\* self._notification_callbacks.get(feature)
CallbacksFor(f) == IF f \in DOMAIN callbacks THEN callbacks[f] ELSE << >>

Ev(ev, h, n) == [ev |-> ev, h |-> h, n |-> n]

\* _resolve_pending_response against the futures fu.
ResolveIn(fu, m) ==
    LET k == Get(pending, m.id)
    IN  IF m.id # 0 /\ k # 0 /\ fu[k] = "pending" THEN k ELSE 0

\* _process_incoming_message, lines 855-875, for the object m: the future is
\* resolved, the cache updated, and the dispatch begins if m is a notify
\* for a feature with callbacks.
Accept(d, m) ==
    LET k == IF m.type = "result" THEN ResolveIn(d.fut, m) ELSE 0
        L == CallbacksFor(m.feature)
        go == m.type = "notify" /\ m.feature # "" /\ L # << >>
    IN  [d EXCEPT
           !.fut = IF k # 0 THEN [@ EXCEPT ![k] = "result"] ELSE @,
           !.resp = IF k # 0 THEN [@ EXCEPT ![k] = m.id] ELSE @,
           !.reply = IF k # 0 THEN [@ EXCEPT ![k] = m] ELSE @,
           !.ch = UpdateInternalState(@, m.feature, m.value),
           !.hist = Append(@, [type |-> m.type, feature |-> m.feature, regs0 |-> L,
                              regs1 |-> L, st |-> IF go THEN "dispatching" ELSE "done",
                              touched |-> FALSE, lost |-> ndropped,
                              value |-> m.value, seen |-> << >>,
                              applied |-> UpdateInternalState(d.ch, m.feature, m.value),
                              after |-> m.feature \in DOMAIN gone /\ gone[m.feature] # {}]),
           !.cbi = IF go THEN 1 ELSE 0]

\* Variant of Invoke: a coroutine callback is started and the loop goes on
\* without awaiting it.
InvokeDetached(d) ==
    LET n == Len(d.hist)
        L == CallbacksFor(d.hist[n].feature)
    IN  IF d.cbi > Len(L)
        THEN [d EXCEPT !.cbi = 0, !.hist[n].st = "done", !.hist[n].regs1 = L]
        ELSE [d EXCEPT !.log = Append(d.log, Ev("start", L[d.cbi], n)), !.cbi = @ + 1]

\* _dispatch_notification_callbacks, lines 959-967: one turn of
\* "for callback in callbacks", over the list as it is now.
Invoke(d) ==
    LET n == Len(d.hist)
        L == CallbacksFor(d.hist[n].feature)
    IN  IF d.cbi > Len(L)
        THEN [d EXCEPT !.cbi = 0, !.hist[n].st = "done", !.hist[n].regs1 = L]
        ELSE LET h == L[d.cbi]
                 started == Append(d.log, Ev("start", h, n))
                 \* what the callback finds in the cache for its feature
                 s == [d EXCEPT !.hist[n].seen = Append(@, CacheField(d.ch, d.hist[n].feature))]
             IN  CASE IsCoroutine(h) ->
                        [s EXCEPT !.log = started, !.out = "awaiting"]
                   [] Raises(h) = "caught" ->
                        [s EXCEPT !.log = Append(started, Ev("raise", h, n)),
                                  !.cbi = @ + 1]
                   [] Raises(h) = "uncaught" ->
                        [s EXCEPT !.log = Append(started, Ev("raise", h, n)),
                                  !.hist[n].st = "aborted", !.hist[n].regs1 = L,
                                  !.out = "dead"]
                   [] OTHER ->
                        [s EXCEPT !.log = Append(started, Ev("end", h, n)),
                                  !.cbi = @ + 1]

\* _notification_loop, lines 702-703, and what it calls: the loop runs on
\* until it suspends in a callback ("awaiting"), has nothing left and reads
\* again ("reading"), or an exception no handler catches ends it ("dead").
\* message.get on a value that is not a dict raises AttributeError.
RECURSIVE Drain(_)
Drain(d) ==
    IF d.out # "run" THEN d
    ELSE IF d.cbi # 0 THEN Drain(Invoke(d))
    ELSE IF d.batch = << >> THEN [d EXCEPT !.out = "reading"]
    ELSE LET v == Head(d.batch)
             rest == [d EXCEPT !.batch = Tail(@)]
         IN  CASE v.js = "falsy" -> Drain(rest)
               [] v.js = "nonobject" -> [rest EXCEPT !.out = "dead"]
               [] OTHER -> Drain(Accept(rest, v.m))

\* The loop's state as Drain takes it.
Running(b, i, lg) ==
    [ch |-> cache, fut |-> fut, resp |-> resp, reply |-> reply, batch |-> b,
     cbi |-> i, hist |-> hist, log |-> lg, out |-> "run"]

\* The loop has run to d: "finally: self._listening = False" when it ended,
\* the test of the while statement when it goes on to read.
Settle(t, d) ==
    /\ cache' = d.ch
    /\ fut' = d.fut
    /\ resp' = d.resp
    /\ reply' = d.reply
    /\ batch' = d.batch
    /\ cbi' = d.cbi
    /\ hist' = d.hist
    /\ log' = d.log
    /\ CASE d.out = "awaiting" ->
              /\ task' = [task EXCEPT ![t] = "awaiting"]
              /\ UNCHANGED listening
         [] d.out = "reading" /\ listening /\ connected ->
              /\ task' = [task EXCEPT ![t] = "reading"]
              /\ UNCHANGED listening
         [] OTHER ->
              /\ task' = [task EXCEPT ![t] = "done"]
              /\ listening' = FALSE

\* read() returned the data chunk.
ListenerRead(t, chunk) ==
    /\ task[t] = "reading"
    /\ stream = "open"
    /\ nreads < MaxReads
    /\ nreads' = nreads + 1
    /\ ndropped' = ndropped + Len(chunk) - Len(DecodeJsonStream(chunk))
    /\ Settle(t, Drain(Running(DecodeJsonStream(chunk), 0, log)))
    /\ UNCHANGED <<connected, stream, nopen, handle, ntasks, lockVars, counter, pending,
                   pc, cur, ncalls, callId, outcome, discVars, envVars, histVars, lastMsg,
                   listenVars, ret, callbacks, gone, nregs, nunregs>>
    /\ UNCHANGED sideVars

\* The coroutine callback the loop awaits has returned.
CallbackDone(t) ==
    /\ task[t] = "awaiting"
    /\ Settle(t, Drain(Running(batch, cbi + 1,
                               Append(log, Ev("end", log[Len(log)].h, Len(hist))))))
    /\ UNCHANGED <<connected, stream, nopen, handle, ntasks, lockVars, counter, pending,
                   pc, cur, ncalls, callId, outcome, discVars, envVars, histVars, lastMsg,
                   listenVars, ret, callbacks, gone, nreads, ndropped, nregs, nunregs>>
    /\ UNCHANGED sideVars

\* read() ran into its timeout, returned no data, or raised OSError: the
\* loop goes on (after its sleep in the last two cases).
ListenerIdle(t) ==
    /\ task[t] = "reading"
    /\ LoopGoesOn
    /\ nreads < MaxReads
    /\ nreads' = nreads + 1
    /\ UNCHANGED <<clientVars, lockVars, counter, pending, callVars, discVars, envVars,
                   histVars, cache, lastMsg, listenVars, getVars, callbacks, gone, batch,
                   cbi, hist, log, ndropped, nregs, nunregs>>
    /\ UNCHANGED sideVars

\* The device closes the connection: from now on read() returns b"" at once.
PeerClose ==
    /\ stream = "open"
    /\ stream' = "eof"
    /\ UNCHANGED <<connected, listening, handle, task, ntasks, nopen, lockVars, counter,
                   pending, callVars, discVars, envVars, histVars, cache, lastMsg,
                   listenVars, getVars, dispVars, sideVars>>

\* A dispatch for feature f is suspended in a callback.
Dispatching(f) ==
    /\ \E t \in Tasks : task[t] = "awaiting"
    /\ hist[Len(hist)].feature = f

\* The registry has changed under the dispatch that is suspended, if any.
Touch(f) ==
    IF Dispatching(f) THEN [hist EXCEPT ![Len(hist)].touched = TRUE] ELSE hist

\* register_notification_callback(feature, callback)
RegisterCallback(f, h) ==
    /\ nregs < MaxRegs
    /\ nregs' = nregs + 1
    /\ callbacks' = [callbacks EXCEPT ![f] = Append(@, h)]
    /\ gone' = [gone EXCEPT ![f] = @ \ {h}]
    /\ hist' = Touch(f)
    /\ UNCHANGED <<clientVars, lockVars, counter, pending, callVars, discVars, envVars,
                   histVars, cache, lastMsg, listenVars, getVars, batch, cbi, log, nreads,
                   ndropped, nunregs>>
    /\ UNCHANGED sideVars

\* unregister_notification_callback(feature, callback): the callback is taken
\* off the feature's list, the others keep their order.
UnregisterCallback(f, h) ==
    /\ nunregs < MaxUnregs
    /\ nunregs' = nunregs + 1
    /\ callbacks' = [callbacks EXCEPT ![f] = SelectSeq(@, LAMBDA x : x # h)]
    /\ gone' = IF \E i \in 1..Len(callbacks[f]) : callbacks[f][i] = h
               THEN [gone EXCEPT ![f] = @ \cup {h}]
               ELSE gone
    /\ hist' = Touch(f)
    /\ UNCHANGED <<clientVars, lockVars, counter, pending, callVars, discVars, envVars,
                   histVars, cache, lastMsg, listenVars, getVars, batch, cbi, log, nreads,
                   ndropped, nregs>>
    /\ UNCHANGED sideVars

(***************************************************************************)
(* async_listen_for_notifications called directly (the integration's setup *)
(* does).                                                                  *)
(***************************************************************************)
\* Line 676: self._listener_task = asyncio.create_task(self._notification_loop())
CreateListenerTask ==
    /\ ntasks' = ntasks + 1
    /\ handle' = ntasks + 1
    /\ task' = [task EXCEPT ![ntasks + 1] = "created"]

\* The call: lines 670-676, up to the await of async_connect if there is one.
ListenCall ==
    /\ lpc = "idle"
    /\ nlisten < MaxListens
    /\ nlisten' = nlisten + 1
    /\ IF handle # 0 /\ task[handle] # "done"
       THEN UNCHANGED <<handle, task, ntasks, lpc>>
       ELSE IF connected
            THEN CreateListenerTask /\ UNCHANGED lpc
            ELSE lpc' = "open" /\ UNCHANGED <<handle, task, ntasks>>
    /\ UNCHANGED <<connected, listening, stream, nopen, lockVars, counter, pending, callVars,
                   discVars, envVars, histVars, cache, lastMsg>>
    /\ UNCHANGED getVars
    /\ UNCHANGED dispVars
    /\ UNCHANGED sideVars

\* async_connect: open_connection returned, self._reader/_writer are set.
ListenConnectOpened ==
    /\ lpc = "open"
    /\ stream' = "open"
    /\ nopen' = nopen + 1
    /\ lpc' = "settle"
    /\ UNCHANGED <<connected, listening, handle, task, ntasks, nlisten, lockVars, counter,
                   pending, callVars, discVars, envVars, histVars, cache, lastMsg>>
    /\ UNCHANGED getVars
    /\ UNCHANGED dispVars
    /\ UNCHANGED sideVars

\* async_connect: open_connection failed or timed out (OSError).
ListenConnectFailed ==
    /\ nfaults < MaxFaults
    /\ nfaults' = nfaults + 1
    /\ lpc = "open"
    /\ connected' = FALSE
    /\ lpc' = "idle"
    /\ UNCHANGED <<listening, stream, nopen, handle, task, ntasks, nlisten, lockVars, counter,
                   pending, callVars, discVars, histVars, cache, lastMsg>>
    /\ UNCHANGED getVars
    /\ UNCHANGED dispVars
    /\ UNCHANGED sideVars

\* async_connect: the stabilization sleep is over; line 676 creates the task.
ListenConnectStable ==
    /\ lpc = "settle"
    /\ connected' = TRUE
    /\ CreateListenerTask
    /\ lpc' = "idle"
    /\ UNCHANGED <<listening, stream, nopen, nlisten, lockVars, counter, pending, callVars,
                   discVars, envVars, histVars, cache, lastMsg>>
    /\ UNCHANGED getVars
    /\ UNCHANGED dispVars
    /\ UNCHANGED sideVars

(***************************************************************************)
(* async_disconnect.                                                       *)
(***************************************************************************)
\* The calls whose futures are in the Pending Command Table.
Registered == {e[2] : e \in pending}

\* Variant of DiscFinish: the table is cleared, the futures are left alone.
DiscFinishSilent ==
    /\ stream' = "none"
    /\ connected' = FALSE
    /\ fut' = fut
    /\ pending' = {}
    /\ dpc' = "idle"

\* Lines 116-124: the streams are dropped and every pending future is failed.
DiscFinish ==
    /\ stream' = "none"
    /\ connected' = FALSE
    /\ fut' = [k \in Calls |->
                 IF k \in Registered /\ fut[k] = "pending" THEN "exception" ELSE fut[k]]
    /\ pending' = {}
    /\ dpc' = "idle"

\* Lines 111-115: the task handle is dropped and the writer is closed.
DiscClose ==
    /\ handle' = 0
    /\ IF stream # "none"
       THEN /\ stream' = "closing"
            /\ nopen' = IF stream \in {"open", "eof"} THEN nopen - 1 ELSE nopen
            /\ dpc' = "wait_closed"
            /\ UNCHANGED <<connected, fut, pending>>
       ELSE DiscFinish /\ UNCHANGED nopen

\* async_disconnect is called: lines 106-110, and on when nothing is awaited.
DisconnectCall ==
    /\ dpc = "idle"
    /\ ndisc < MaxDisconnects
    /\ ndisc' = ndisc + 1
    /\ snap' = {k \in Registered : fut[k] = "pending"}
    /\ listening' = FALSE
    /\ IF handle # 0 /\ task[handle] \in {"created", "reading", "awaiting"}
       THEN /\ task' = [task EXCEPT ![handle] =
                          IF task[handle] = "created" THEN "cancelling0" ELSE "cancelling"]
            /\ dtask' = handle
            /\ dpc' = "wait_listener"
            /\ UNCHANGED <<handle, stream, nopen, connected, fut, pending>>
       ELSE DiscClose /\ UNCHANGED <<task, dtask>>
    /\ UNCHANGED <<ntasks, lockVars, counter, pc, cur, ncalls, callId, resp,
                   outcome, histVars, cache, lastMsg>>
    /\ UNCHANGED nfaults
    /\ UNCHANGED listenVars
    /\ UNCHANGED getVars
    /\ UNCHANGED dispVars
    /\ UNCHANGED sideVars

\* "await self._listener_task" returned.
DisconnectListenerStopped ==
    /\ dpc = "wait_listener"
    /\ task[dtask] = "done"
    /\ DiscClose
    /\ UNCHANGED <<listening, task, ntasks, lockVars, counter, pc, cur, ncalls,
                   callId, resp, outcome, dtask, ndisc, snap, histVars, cache, lastMsg>>
    /\ UNCHANGED nfaults
    /\ UNCHANGED listenVars
    /\ UNCHANGED getVars
    /\ UNCHANGED dispVars
    /\ UNCHANGED sideVars

\* "await self._writer.wait_closed()" returned.
DisconnectClosed ==
    /\ dpc = "wait_closed"
    /\ DiscFinish
    /\ UNCHANGED <<listening, handle, task, ntasks, nopen, lockVars, counter, pc, cur,
                   ncalls, callId, resp, outcome, dtask, ndisc, snap, histVars, cache,
                   lastMsg>>
    /\ UNCHANGED nfaults
    /\ UNCHANGED listenVars
    /\ UNCHANGED getVars
    /\ UNCHANGED dispVars
    /\ UNCHANGED sideVars

(***************************************************************************)
(* The client after construction, and its behaviours.                      *)
(***************************************************************************)
\* The generations of transitions.
Gens == 1..MaxSets
\* No task: _async_volume_transition has not been called for the generation.
NoTask ==
    [st |-> "unborn", cancel |-> FALSE, at |-> "none", failed |-> FALSE, start |-> 0,
     end |-> 0, delay |-> 0, i |-> 0]
\* BraviaQuadVolumeNumber.__init__ on a client whose cached volume is v.
NumberInit(v) ==
    /\ native_value = v
    /\ transition_in_progress = FALSE
    /\ transition_generation = 0
    /\ transition_task = 0
    /\ tr = [g \in Gens |-> NoTask]
    /\ direct = << >>
    /\ sent = << >>
    /\ clears = << >>
    /\ calls = << >>
    /\ device0 = v
    /\ removed = FALSE
    /\ nsets = 0
    /\ nnotifs = 0
    /\ notified = << >>
    /\ nintervals = 0
\* The volume entity of a client that was just constructed.
NumberIdle ==
    /\ NumberInit(InitialCache.volume)
    /\ volume_step_interval = 0

\* async_detect_subwoofer has not been called.
DetectIdle ==
    det = [pc |-> "idle", level |-> 0, ret |-> "none", get |-> 0, probe |-> 0,
           revert |-> 0, sets |-> << >>, bass |-> 0]

\* No setter has been called.
SettingIdle ==
    setting = [c \in Callers |-> [f |-> "", v |-> 0, k |-> 0, ret |-> "none",
                                  before |-> 0, after |-> 0]]

\* async_test_connection has not been called.
TestIdle == tc = [pc |-> "idle", ret |-> "none", k |-> 0, own |-> FALSE]

\* No setter has raised, no typed operation is under way.
SetterIdle ==
    /\ err = [c \in Callers |-> "none"]
    /\ nrejects = 0
    /\ DetectIdle
    /\ TestIdle
    /\ SettingIdle

\* No buffer has been handed to the decoder.
DecoderIdle ==
    /\ objs = << >>
    /\ seps = << >>
    /\ messages = << >>
    /\ plain = << >>
    /\ decpc = "idle"

\* The client as its constructor leaves it.
ClientFresh ==
    /\ connected = FALSE
    /\ listening = FALSE
    /\ stream = "none"
    /\ handle = 0
    /\ task = [t \in Tasks |-> "unborn"]
    /\ ntasks = 0
    /\ nopen = 0
    /\ lpc = "idle"
    /\ nlisten = 0
    /\ lockHolder = 0
    /\ lockQueue = << >>
    /\ counter = CMD_ID_INITIAL
    /\ pending = {}
    /\ pc = [c \in Callers |-> "idle"]
    /\ cur = [c \in Callers |-> 0]
    /\ ncalls = 0
    /\ callId = [k \in Calls |-> 0]
    /\ fut = [k \in Calls |-> "none"]
    /\ resp = [k \in Calls |-> 0]
    /\ outcome = [k \in Calls |-> "none"]
    /\ dpc = "idle"
    /\ dtask = 0
    /\ ndisc = 0
    /\ snap = {}
    /\ nfaults = 0
    /\ wire = << >>
    /\ assigned = << >>
    /\ base = 0
    /\ cache = InitialCache
    /\ lastMsg = NoMsg
    /\ reply = [k \in Calls |-> NoMsg]
    /\ ret = [k \in Calls |-> NoneV]
    /\ callbacks = [f \in DispFeatures |-> << >>]
    /\ gone = [f \in DispFeatures |-> {}]
    /\ batch = << >>
    /\ cbi = 0
    /\ hist = << >>
    /\ log = << >>
    /\ nreads = 0
    /\ ndropped = 0
    /\ nregs = 0
    /\ nunregs = 0

InitFresh ==
    /\ connected = FALSE
    /\ listening = FALSE
    /\ stream = "none"
    /\ handle = 0
    /\ task = [t \in Tasks |-> "unborn"]
    /\ ntasks = 0
    /\ nopen = 0
    /\ lpc = "idle"
    /\ nlisten = 0
    /\ lockHolder = 0
    /\ lockQueue = << >>
    /\ counter = CMD_ID_INITIAL
    /\ pending = {}
    /\ pc = [c \in Callers |-> "idle"]
    /\ cur = [c \in Callers |-> 0]
    /\ ncalls = 0
    /\ callId = [k \in Calls |-> 0]
    /\ fut = [k \in Calls |-> "none"]
    /\ resp = [k \in Calls |-> 0]
    /\ outcome = [k \in Calls |-> "none"]
    /\ dpc = "idle"
    /\ dtask = 0
    /\ ndisc = 0
    /\ snap = {}
    /\ nfaults = 0
    /\ wire = << >>
    /\ assigned = << >>
    /\ base = 0
    /\ cache = InitialCache
    /\ lastMsg = NoMsg
    /\ reply = [k \in Calls |-> NoMsg]
    /\ ret = [k \in Calls |-> NoneV]
    /\ callbacks = [f \in DispFeatures |-> << >>]
    /\ gone = [f \in DispFeatures |-> {}]
    /\ batch = << >>
    /\ cbi = 0
    /\ hist = << >>
    /\ log = << >>
    /\ nreads = 0
    /\ ndropped = 0
    /\ nregs = 0
    /\ nunregs = 0
    /\ DecoderIdle
    /\ SetterIdle
    /\ NumberIdle

\* The ids _get_next_command_id hands out repeat with this period.
CycleLen == CMD_ID_MAX - CMD_ID_INITIAL + 1
\* The n-th id a client hands out after its construction (n >= 1).
NthId(n) == CMD_ID_INITIAL + (n % CycleLen)
\* The rank, among all ids the client has handed out, of the id of Earlier.
EarlierRank == CycleLen

(***************************************************************************)
(* A client that has been in use: it is connected, its listener is reading,*)
(* and its counter stands one below CMD_ID_MAX.  The command that received *)
(* id CMD_ID_INITIAL at the previous wrap (call Earlier, of caller 1) is   *)
(* still awaited; every command sent after it has completed.  wire and     *)
(* assigned record what happens from this state on.                        *)
(***************************************************************************)
InitLoaded ==
    /\ connected = TRUE
    /\ listening = TRUE
    /\ stream = "open"
    /\ handle = 1
    /\ task = [t \in Tasks |-> IF t = 1 THEN "reading" ELSE "unborn"]
    /\ ntasks = 1
    /\ nopen = 1
    /\ lpc = "idle"
    /\ nlisten = 0
    /\ lockHolder = 0
    /\ lockQueue = << >>
    /\ counter = CMD_ID_MAX - 1
    /\ pending = {<<CMD_ID_INITIAL, Earlier>>}
    /\ pc = [c \in Callers |-> IF c = 1 THEN "wait" ELSE "idle"]
    /\ cur = [c \in Callers |-> IF c = 1 THEN Earlier ELSE 0]
    /\ ncalls = 0
    /\ callId = [k \in Calls |-> IF k = Earlier THEN CMD_ID_INITIAL ELSE 0]
    /\ fut = [k \in Calls |-> IF k = Earlier THEN "pending" ELSE "none"]
    /\ resp = [k \in Calls |-> 0]
    /\ outcome = [k \in Calls |-> "none"]
    /\ dpc = "idle"
    /\ dtask = 0
    /\ ndisc = 0
    /\ snap = {}
    /\ nfaults = 0
    /\ wire = << >>
    /\ assigned = << >>
    /\ base = 2 * CycleLen - 2
    /\ cache = InitialCache
    /\ lastMsg = NoMsg
    /\ reply = [k \in Calls |-> NoMsg]
    /\ ret = [k \in Calls |-> NoneV]
    /\ callbacks = [f \in DispFeatures |-> << >>]
    /\ gone = [f \in DispFeatures |-> {}]
    /\ batch = << >>
    /\ cbi = 0
    /\ hist = << >>
    /\ log = << >>
    /\ nreads = 0
    /\ ndropped = 0
    /\ nregs = 0
    /\ nunregs = 0
    /\ DecoderIdle
    /\ SetterIdle
    /\ NumberIdle

Init == InitFresh

Next ==
    \/ \E c \in Callers : Call(c)
    \/ \E c \in Callers : ConnectOpened(c)
    \/ \E c \in Callers : ConnectFailed(c)
    \/ \E c \in Callers : ConnectStable(c)
    \/ \E c \in Callers : LockAcquired(c)
    \/ \E c \in Callers : DrainDone(c)
    \/ \E c \in Callers : DrainFailed(c)
    \/ \E c \in Callers : Resume(c)
    \/ \E c \in Callers : Timeout(c)
    \/ \E c \in Callers : CancelCall(c)
    \/ \E t \in Tasks : ListenerRun(t)
    \/ \E t \in Tasks : \E m \in DeviceMsgs : ListenerData(t, m)
    \/ \E t \in Tasks : ListenerExit(t)
    \/ \E t \in Tasks : ListenerCancelled(t)
    \/ DisconnectCall
    \/ DisconnectListenerStopped
    \/ DisconnectClosed

\* A client from its construction on.
Spec == Init /\ [][Next]_vars

\* The event loop resumes every coroutine whose await has completed:
\* open_connection ends within its wait_for timeout, the stabilization sleep
\* ends, the send lock is handed on, drain() returns or raises, and wait_for
\* returns when the future is done or its timer fires.
Fairness ==
    \A c \in Callers :
        /\ WF_vars(ConnectOpened(c) \/ ConnectFailed(c))
        /\ WF_vars(ConnectStable(c))
        /\ WF_vars(LockAcquired(c))
        /\ WF_vars(DrainDone(c) \/ DrainFailed(c))
        /\ WF_vars(Resume(c) \/ Timeout(c))

FairSpec == Init /\ [][Next]_vars /\ Fairness

\* The client with async_listen_for_notifications called directly as well, as
\* the integration's setup does next to its first commands.
NextListen ==
    \/ Next
    \/ \E t \in Tasks : ListenerClash(t)
    \/ ListenCall
    \/ ListenConnectOpened
    \/ ListenConnectFailed
    \/ ListenConnectStable

SpecListen == Init /\ [][NextListen]_vars

\* A client from its construction on, or one that has been in use.
SpecWrapped == (InitFresh \/ InitLoaded) /\ [][Next]_vars

(***************************************************************************)
(* _process_incoming_message applied to arbitrary inbound messages.        *)
(***************************************************************************)
\* The values a message of each feature carries: both ends of the feature's
\* range and their neighbours, numbers as strings, text, ACK in three
\* spellings, and no value.
AckValues == {StrV(ACK), StrV(<<"a", "c", "k">>), StrV(<<"A", "c", "k">>)}
TextValues == {StrV(ON), StrV(<<" ", "7">>), StrV(<<"-", "3">>), StrV(<<"x">>), NoneV}
CacheMsgs ==
    {Msg(ty, 0, f, v) :
        ty \in {"result", "notify"},
        f \in {FEATURE_VOLUME},
        v \in {IntV(n) : n \in {-1, 0, 100, 101}} \cup TextValues \cup AckValues}
      \cup
    {Msg(ty, 0, f, v) :
        ty \in {"result", "notify"},
        f \in {FEATURE_REAR_LEVEL, FEATURE_BASS_LEVEL},
        v \in {IntV(n) : n \in {-11, -10, 10, 11}} \cup TextValues \cup AckValues}
      \cup
    {Msg(ty, 0, f, v) :
        ty \in {"result", "notify"},
        f \in {FEATURE_POWER, FEATURE_AAV, ""},
        v \in {StrV(ON), IntV(5), NoneV} \cup AckValues}

\* The reader hands message m to _process_incoming_message.
CacheDeliver(m) ==
    /\ ProcessIncomingMessage(m)
    /\ lastMsg' = m
    /\ UNCHANGED <<clientVars, lockVars, counter, pending, pc, cur, ncalls, callId, outcome,
                   discVars, envVars, histVars, listenVars, ret, dispVars, sideVars>>

NextCache == \E m \in CacheMsgs : CacheDeliver(m)

SpecCache == InitFresh /\ [][NextCache]_vars

\* Messages for a client with one command pending: a notify, a result for the
\* pending id, a result for an id that was never pending or no longer is.
PendingIds == {0, CMD_ID_INITIAL, CMD_ID_INITIAL + 1}
CachePendingMsgs ==
    {Msg(ty, i, FEATURE_POWER, v) :
        ty \in {"result", "notify"}, i \in PendingIds, v \in {StrV(ON), StrV(OFF)}}
      \cup
    {Msg(ty, i, FEATURE_VOLUME, v) :
        ty \in {"result", "notify"}, i \in PendingIds,
        v \in {IntV(0), IntV(100), StrV(<<"7">>), StrV(<<"x">>), StrV(ACK)}}
      \cup
    {Msg(ty, i, FEATURE_REAR_LEVEL, v) :
        ty \in {"result", "notify"}, i \in PendingIds, v \in {IntV(-10), IntV(11)}}

NextCachePending == \E m \in CachePendingMsgs : CacheDeliver(m)

\* _process_incoming_message on a client that waits for a response.
SpecCachePending == InitLoaded /\ [][NextCachePending]_vars

(***************************************************************************)
(* The typed getters on a connected client whose listener is reading.      *)
(***************************************************************************)
\* The client after async_connect and async_listen_for_notifications, once
\* the listener task has begun to read.
InitConnected ==
    /\ connected = TRUE
    /\ listening = TRUE
    /\ stream = "open"
    /\ handle = 1
    /\ task = [t \in Tasks |-> IF t = 1 THEN "reading" ELSE "unborn"]
    /\ ntasks = 1
    /\ nopen = 1
    /\ lpc = "idle"
    /\ nlisten = 1
    /\ lockHolder = 0
    /\ lockQueue = << >>
    /\ counter = CMD_ID_INITIAL
    /\ pending = {}
    /\ pc = [c \in Callers |-> "idle"]
    /\ cur = [c \in Callers |-> 0]
    /\ ncalls = 0
    /\ callId = [k \in Calls |-> 0]
    /\ fut = [k \in Calls |-> "none"]
    /\ resp = [k \in Calls |-> 0]
    /\ outcome = [k \in Calls |-> "none"]
    /\ dpc = "idle"
    /\ dtask = 0
    /\ ndisc = 0
    /\ snap = {}
    /\ nfaults = 0
    /\ wire = << >>
    /\ assigned = << >>
    /\ base = 0
    /\ cache = InitialCache
    /\ lastMsg = NoMsg
    /\ reply = [k \in Calls |-> NoMsg]
    /\ ret = [k \in Calls |-> NoneV]
    /\ callbacks = [f \in DispFeatures |-> << >>]
    /\ gone = [f \in DispFeatures |-> {}]
    /\ batch = << >>
    /\ cbi = 0
    /\ hist = << >>
    /\ log = << >>
    /\ nreads = 0
    /\ ndropped = 0
    /\ nregs = 0
    /\ nunregs = 0
    /\ DecoderIdle
    /\ SetterIdle
    /\ NumberIdle

\* What the device sends while getters are waiting: results and
\* notifications for both features, with the id of any command sent so far
\* or without id.
GetterMsgs ==
    {Msg(ty, i, FEATURE_POWER, v) :
        ty \in {"result", "notify"}, i \in {callId[k] : k \in Calls},
        v \in {StrV(ON), StrV(OFF), NoneV}}
      \cup
    {Msg(ty, i, FEATURE_VOLUME, v) :
        ty \in {"result", "notify"}, i \in {callId[k] : k \in Calls},
        v \in {IntV(0), IntV(100), IntV(101), StrV(<<"7">>), StrV(<<"x">>), NoneV}}

NextGetter ==
    \/ \E c \in Callers : Call(c)
    \/ \E c \in Callers : LockAcquired(c)
    \/ \E c \in Callers : DrainDone(c)
    \/ \E c \in Callers : GetterResume(c)
    \/ \E c \in Callers : GetterTimeout(c)
    \/ \E m \in GetterMsgs : ListenerData(1, m)

SpecGetter == InitConnected /\ [][NextGetter]_vars

(***************************************************************************)
(* The notification loop and its callbacks on a connected client.          *)
(***************************************************************************)
\* What a read may deliver: notifications for two features, a result, a JSON
\* value that is no object, an empty object, and text that is no JSON.
DispItems ==
    {Obj(Msg("notify", 0, FEATURE_POWER, StrV(ON))),
     Obj(Msg("notify", 0, FEATURE_VOLUME, IntV(100))),
     Obj(Msg("result", 0, FEATURE_POWER, StrV(ON))),
     NonObj, Falsy, Garbage}
Chunks == UNION {[1..n -> DispItems] : n \in 1..MaxChunk}

NextDispatch ==
    \/ \E f \in DispFeatures, h \in Handles : RegisterCallback(f, h)
    \/ \E t \in Tasks, chunk \in Chunks : nreads < MaxDispatchReads /\ ListenerRead(t, chunk)
    \/ \E t \in Tasks : CallbackDone(t)
    \/ \E t \in Tasks : nreads < MaxDispatchReads /\ ListenerIdle(t)
    \/ \E t \in Tasks : ListenerCancelled(t)
    \/ DisconnectCall
    \/ DisconnectListenerStopped
    \/ DisconnectClosed

SpecDispatch == InitConnected /\ [][NextDispatch]_vars

\* The same with unregister_notification_callback.
NextUnregister ==
    \/ NextDispatch
    \/ \E f \in DispFeatures, h \in Handles : UnregisterCallback(f, h)

SpecUnregister == InitConnected /\ [][NextUnregister]_vars

(***************************************************************************)
(* Commands on a connected client whose reads hold text that is no JSON.   *)
(***************************************************************************)
\* What a read may deliver: a notification, the result of a command that was
\* sent, and text that is no JSON.
DecodeItems ==
    {Obj(Msg("notify", 0, FEATURE_POWER, StrV(ON)))}
      \cup {Obj(Msg("result", callId[k], FEATURE_VOLUME, IntV(100))) : k \in Calls}
      \cup {Garbage}
DecodeChunks == UNION {[1..n -> DecodeItems] : n \in 1..MaxChunk}

NextDecode ==
    \/ \E c \in Callers : Call(c)
    \/ \E c \in Callers : LockAcquired(c)
    \/ \E c \in Callers : DrainDone(c)
    \/ \E c \in Callers : Resume(c)
    \/ RegisterCallback(FEATURE_POWER, "cb_async")
    \/ \E t \in Tasks, chunk \in DecodeChunks : ListenerRead(t, chunk)
    \/ \E t \in Tasks : CallbackDone(t)

SpecDecode == InitConnected /\ [][NextDecode]_vars

(***************************************************************************)
(* The ranged setters on a client that is not connected yet.               *)
(***************************************************************************)
\* The values the setters are called with: the ends of the ranges and the
\* values next to them.
SetValues ==
    {MIN_REAR_LEVEL - 1, MIN_REAR_LEVEL, MIN_VOLUME - 1, MIN_VOLUME,
     MAX_REAR_LEVEL, MAX_REAR_LEVEL + 1, MAX_VOLUME, MAX_VOLUME + 1}

NextSetter ==
    \/ \E c \in Callers, f \in RangedFeatures, v \in SetValues : SetCall(c, f, v)
    \/ \E c \in Callers : ConnectOpened(c)
    \/ \E c \in Callers : ConnectFailed(c)
    \/ \E c \in Callers : ConnectStable(c)
    \/ \E c \in Callers : DrainDone(c)
    \/ \E c \in Callers : SetterTimeout(c)
    \/ \E t \in Tasks : ListenerRun(t)
    \/ \E t \in Tasks : \E m \in DeviceMsgs : ListenerData(t, m)
    \/ \E c \in Callers : SetterResume(c)

SpecSetter == InitFresh /\ [][NextSetter]_vars

(***************************************************************************)
(* async_detect_subwoofer on a connected client whose listener is reading. *)
(***************************************************************************)
\* What the device sends meanwhile: results and notifications for the bass
\* level with the id of any command sent so far, carrying a level within
\* 0..2, a level outside it, ACK in both cases of letters or no value, and
\* a result for another feature.
DetectMsgs ==
    {Msg(ty, i, FEATURE_BASS_LEVEL, v) :
        ty \in {"result", "notify"}, i \in {callId[k] : k \in Calls},
        v \in {IntV(2), IntV(5), StrV(ACK), StrV(<<"a", "c", "k">>), NoneV}}
      \cup {Msg("result", i, FEATURE_VOLUME, IntV(5)) : i \in {callId[k] : k \in Calls}}

\* An inbound message at a moment at which the loop can run.
DetectData(m) == Undivided /\ ListenerData(1, m)

NextDetect ==
    \/ DetectCall
    \/ DrainDone(DetectCaller)
    \/ DrainFailed(DetectCaller)
    \/ DetectGetResume
    \/ DetectGetTimeout
    \/ DetectProbe
    \/ DetectProbeResume
    \/ DetectProbeTimeout
    \/ DetectRevert
    \/ DetectRevertResume
    \/ DetectRevertTimeout
    \/ \E m \in DetectMsgs : DetectData(m)

SpecDetect == InitConnected /\ [][NextDetect]_vars

(***************************************************************************)
(* async_test_connection on a client from its construction on, next to     *)
(* another caller's command and a disconnect.                              *)
(***************************************************************************)
\* What the device sends: results for the power feature and for another
\* feature with the id of any command sent so far or without id, and a
\* notification.
TestMsgs ==
    {Msg("result", i, f, StrV(ON)) :
        i \in {callId[k] : k \in Calls}, f \in {FEATURE_POWER, FEATURE_VOLUME}}
      \cup {Msg("notify", 0, FEATURE_POWER, StrV(ON))}

NextTest ==
    \/ TestCall
    \/ \E c \in Callers \ {TestCaller} : Call(c)
    \/ \E c \in Callers : ConnectOpened(c)
    \/ TestConnectFailed
    \/ \E c \in Callers \ {TestCaller} : ConnectFailed(c)
    \/ \E c \in Callers : ConnectStable(c)
    \/ \E c \in Callers : LockAcquired(c)
    \/ \E c \in Callers : DrainDone(c)
    \/ \E c \in Callers : DrainFailed(c)
    \/ TestResume
    \/ \E c \in Callers \ {TestCaller} : Resume(c)
    \/ TestTimeout
    \/ \E c \in Callers \ {TestCaller} : Timeout(c)
    \/ \E c \in Callers : CancelCall(c)
    \/ TestRaised
    \/ \E t \in Tasks : ListenerRun(t)
    \/ \E t \in Tasks : \E m \in TestMsgs : ListenerData(t, m)
    \/ \E t \in Tasks : ListenerExit(t)
    \/ \E t \in Tasks : ListenerCancelled(t)
    \/ DisconnectCall
    \/ DisconnectListenerStopped
    \/ DisconnectClosed

SpecTest == InitFresh /\ [][NextTest]_vars

(***************************************************************************)
(* async_set_power and async_set_volume on a connected client whose device *)
(* answers each command.                                                   *)
(***************************************************************************)
\* The callers whose setter has sent a command.
Setting == {c \in Callers : setting[c].k # 0 /\ callId[setting[c].k] # 0}
\* The device's answers: to a setter's command a result with the command's
\* id, for its feature or without feature, that carries ACK, a refusal or a
\* number.
SetAnswers ==
    {Msg("result", callId[setting[c].k], f, v) :
        c \in Setting, f \in {setting[c].f : c \in Setting} \cup {""},
        v \in {StrV(ACK), StrV(<<"N", "A", "K">>), IntV(7)}}
\* The volumes and power states that are set.
SetVolumes == {30, 31}
SetStates == {ON, OFF}

NextSet ==
    \/ \E c \in Callers, state \in SetStates : SetPowerCall(c, state)
    \/ \E c \in Callers, v \in SetVolumes : SetCall(c, FEATURE_VOLUME, v)
    \/ \E c \in Callers : LockAcquired(c)
    \/ \E c \in Callers : DrainDone(c)
    \/ \E c \in Callers : SetterResume(c)
    \/ \E c \in Callers : SetterTimeout(c)
    \/ \E m \in SetAnswers : ListenerData(1, m)

SpecSet == InitConnected /\ [][NextSet]_vars

(***************************************************************************)
(* Callbacks for the power feature next to async_get_power, on a connected *)
(* client.                                                                 *)
(***************************************************************************)
\* What a read may deliver: the answer to the getter's command or a
\* notification with another value.
SeenItems ==
    {Obj(Msg("result", callId[k], FEATURE_POWER, StrV(ON))) : k \in Calls}
      \cup {Obj(Msg("notify", 0, FEATURE_POWER, StrV(OFF)))}
SeenChunks == {<<it>> : it \in SeenItems}

NextSeen ==
    \/ \E h \in {"cb_async", "cb_sync"} : RegisterCallback(FEATURE_POWER, h)
    \/ Call(TestCaller)
    \/ DrainDone(TestCaller)
    \/ GetterResume(TestCaller)
    \/ GetterTimeout(TestCaller)
    \/ \E t \in Tasks, chunk \in SeenChunks : ListenerRead(t, chunk)
    \/ \E t \in Tasks : CallbackDone(t)

SpecSeen == InitConnected /\ [][NextSeen]_vars

(***************************************************************************)
(* BraviaQuadVolumeNumber: the volume entity and its stepped transitions.  *)
(* client.async_set_volume is a call that is sent at once and returns True *)
(* or False after an await.                                                *)
(***************************************************************************)
\* abs()
PyAbs(n) == IF n < 0 THEN 0 - n ELSE n
\* Variant of next_volume: the target at once.
TargetAtOnce(start, end, i) == end
\* next_volume = start_volume + (i * step_increment)
NextVolume(start, end, i) == start + i * (IF end > start THEN 1 ELSE -1)
\* Variant of the cancellation: the task is left alone.
CancelIgnored(trf, h) == trf
\* "if self._transition_task: self._transition_task.cancel()": a task that
\* has not begun never runs its coroutine, one that is suspended is resumed
\* with CancelledError.  Field at keeps where the task was.
CancelTransition(trf, h) ==
    IF h = 0 \/ trf[h].st = "done" THEN trf
    ELSE [trf EXCEPT ![h].cancel = TRUE,
                     ![h].at = trf[h].st,
                     ![h].st = IF trf[h].st = "created" THEN "done" ELSE trf[h].st]
\* "self._transition_in_progress = False" by who, for generation g (0: none).
Cleared(who, g) == Append(clears, [by |-> who, g |-> g, was |-> transition_in_progress])

\* Variant of the optimistic report: the displayed value is left for later.
DisplayedLater(current_volume, target_volume) == current_volume
\* "self._attr_native_value = target_volume" when a transition starts.
Displayed(current_volume, target_volume) == target_volume

\* async_set_native_value(v): lines 100-132, up to the await of
\* async_set_volume in the direct branch or to the return.
AsyncSetNativeValue(v) ==
    /\ ~removed
    /\ nsets < MaxSets
    /\ nsets' = nsets + 1
    /\ LET current_volume == native_value
           cancelled == CancelTransition(tr, transition_task)
           generation == transition_generation + 1
       IN  IF volume_step_interval <= 0 \/ current_volume = v
           THEN /\ transition_task' = 0
                /\ transition_in_progress' = FALSE
                /\ clears' = Cleared("direct", transition_task)
                /\ tr' = cancelled
                /\ direct' = Append(direct, [v |-> v, st |-> "sending"])
                /\ sent' = Append(sent, [g |-> 0, v |-> v, slept |-> 0])
                /\ calls' = Append(calls, [v |-> v, cur |-> current_volume,
                                           ms |-> volume_step_interval, g |-> 0,
                                           k |-> Len(direct) + 1])
                /\ UNCHANGED <<native_value, transition_generation>>
           ELSE /\ native_value' = Displayed(current_volume, v)
                /\ transition_in_progress' = TRUE
                /\ transition_generation' = generation
                /\ transition_task' = generation
                /\ tr' = [cancelled EXCEPT ![generation] =
                             [st |-> "created", cancel |-> FALSE, at |-> "none",
                              failed |-> FALSE,
                              start |-> current_volume, end |-> v,
                              delay |-> volume_step_interval, i |-> 0]]
                /\ calls' = Append(calls, [v |-> v, cur |-> current_volume,
                                           ms |-> volume_step_interval, g |-> generation,
                                           k |-> 0])
                /\ UNCHANGED <<direct, sent, clears>>
    /\ UNCHANGED <<volume_step_interval, device0, removed, nnotifs, notified, nintervals>>
    /\ UNCHANGED <<clientSide, decVars, setVars>>

\* Variant of the finally block: the generation is not compared.
FinallyAlways(g, ok) ==
    /\ tr' = [tr EXCEPT ![g].st = "done", ![g].failed = ~ok]
    /\ transition_in_progress' = FALSE
    /\ transition_task' = 0
    /\ clears' = Cleared("task", g)
\* The finally block of the task of generation g, which ends the task; ok
\* is FALSE when the loop was left because a step failed.
Finally(g, ok) ==
    /\ tr' = [tr EXCEPT ![g].st = "done", ![g].failed = ~ok]
    /\ IF transition_generation = g
       THEN /\ transition_in_progress' = FALSE
            /\ transition_task' = 0
            /\ clears' = Cleared("task", g)
       ELSE UNCHANGED <<transition_in_progress, transition_task, clears>>

\* The task of generation g begins: lines 146-158, up to the first sleep.
TransitionStart(g) ==
    /\ tr[g].st = "created"
    /\ IF PyAbs(tr[g].end - tr[g].start) = 0
       THEN /\ tr' = [tr EXCEPT ![g].st = "done"]
            /\ transition_in_progress' = FALSE
            /\ clears' = Cleared("task", g)
       ELSE /\ tr' = [tr EXCEPT ![g].st = "sleeping", ![g].i = 1]
            /\ UNCHANGED <<transition_in_progress, clears>>
    /\ UNCHANGED <<native_value, transition_generation, transition_task, volume_step_interval,
                   direct, sent, calls, device0, removed, nsets, nnotifs, notified, nintervals>>
    /\ UNCHANGED <<clientSide, decVars, setVars>>

\* asyncio.sleep(delay) has returned: the next step is sent.
TransitionStep(g) ==
    /\ tr[g].st = "sleeping"
    /\ ~tr[g].cancel
    /\ tr' = [tr EXCEPT ![g].st = "sending"]
    /\ sent' = Append(sent, [g |-> g, v |-> NextVolume(tr[g].start, tr[g].end, tr[g].i),
                             slept |-> tr[g].delay])
    /\ UNCHANGED <<native_value, transition_in_progress, transition_generation, transition_task,
                   volume_step_interval, direct, clears, calls, device0, removed, nsets, nnotifs, notified,
                   nintervals>>
    /\ UNCHANGED <<clientSide, decVars, setVars>>

\* async_set_volume has returned ok to the task: the next turn of the loop,
\* or its end (after the last step, or "break" after a failure) and finally.
TransitionStepDone(g, ok) ==
    /\ tr[g].st = "sending"
    /\ ~tr[g].cancel
    /\ IF ok /\ tr[g].i < PyAbs(tr[g].end - tr[g].start)
       THEN /\ tr' = [tr EXCEPT ![g].st = "sleeping", ![g].i = @ + 1]
            /\ UNCHANGED <<transition_in_progress, transition_task, clears>>
       ELSE Finally(g, ok)
    /\ UNCHANGED <<native_value, transition_generation, volume_step_interval, direct, sent,
                   calls, device0, removed, nsets, nnotifs, notified, nintervals>>
    /\ UNCHANGED <<clientSide, decVars, setVars>>

\* CancelledError reaches the task in its sleep or in async_set_volume:
\* "except asyncio.CancelledError", then finally.
TransitionCancelled(g) ==
    /\ tr[g].st \in {"sleeping", "sending"}
    /\ tr[g].cancel
    /\ Finally(g, TRUE)
    /\ UNCHANGED <<native_value, transition_generation, volume_step_interval, direct, sent,
                   calls, device0, removed, nsets, nnotifs, notified, nintervals>>
    /\ UNCHANGED <<clientSide, decVars, setVars>>

\* async_set_volume has returned ok to the direct branch: lines 112-116.
DirectDone(k, ok) ==
    /\ k \in 1..Len(direct)
    /\ direct[k].st = "sending"
    /\ direct' = [direct EXCEPT ![k].st = "done"]
    /\ native_value' = IF ok THEN direct[k].v ELSE native_value
    /\ UNCHANGED <<transition_in_progress, transition_generation, transition_task,
                   volume_step_interval, tr, sent, clears, calls, device0, removed, nsets, nnotifs, notified,
                   nintervals>>
    /\ UNCHANGED <<clientSide, decVars, setVars>>

\* Variant of the test of _on_notification: nothing is skipped.
NeverSkipped == FALSE
\* "if self._transition_in_progress: return"
Skipped == transition_in_progress
\* _on_notification(value)
OnNotification(v) ==
    /\ nnotifs < MaxNotifs
    /\ nnotifs' = nnotifs + 1
    /\ notified' = Append(notified, [ok |-> PyInt(v).ok, skipped |-> Skipped])
    /\ LET volume == PyInt(v)
       IN  native_value' = IF ~Skipped /\ volume.ok /\ 0 <= volume.n
                                /\ volume.n <= NUMBER_MAX_VOLUME
                           THEN volume.n ELSE native_value
    /\ UNCHANGED <<transition_in_progress, transition_generation, transition_task,
                   volume_step_interval, tr, direct, sent, clears, calls, device0, removed, nsets,
                   nintervals>>
    /\ UNCHANGED <<clientSide, decVars, setVars>>

\* async_will_remove_from_hass
AsyncWillRemoveFromHass ==
    /\ ~removed
    /\ removed' = TRUE
    /\ tr' = CancelTransition(tr, transition_task)
    /\ transition_task' = 0
    /\ transition_in_progress' = FALSE
    /\ clears' = Cleared("remove", transition_task)
    /\ UNCHANGED <<native_value, transition_generation, volume_step_interval, direct, sent,
                   calls, device0, nsets, nnotifs, notified, nintervals>>
    /\ UNCHANGED <<clientSide, decVars, setVars>>

\* BraviaQuadVolumeStepIntervalNumber.async_set_native_value(ms)
SetStepInterval(ms) ==
    /\ nintervals < MaxIntervalSets
    /\ nintervals' = nintervals + 1
    /\ volume_step_interval' = ms
    /\ UNCHANGED <<native_value, transition_in_progress, transition_generation, transition_task,
                   tr, direct, sent, clears, calls, device0, removed, nsets, nnotifs, notified>>
    /\ UNCHANGED <<clientSide, decVars, setVars>>

\* The volumes of the model, the step intervals, and the values of the
\* notifications: a volume, a volume out of range, a volume as text, text
\* that is no number, and null.
StartVolumes == {50}
TargetVolumes == {50, 52, 53}
Intervals == {0, 100}
NotifValues == {IntV(51), IntV(NUMBER_MAX_VOLUME + 1), StrV(<<"5", "1">>), StrV(<<"x">>), NoneV}

InitNumber ==
    /\ ClientFresh
    /\ DecoderIdle
    /\ SetterIdle
    /\ \E v \in StartVolumes : NumberInit(v)
    /\ volume_step_interval \in Intervals

NextNumber ==
    \/ \E v \in TargetVolumes : AsyncSetNativeValue(v)
    \/ \E g \in Gens : TransitionStart(g)
    \/ \E g \in Gens : TransitionStep(g)
    \/ \E g \in Gens, ok \in BOOLEAN : TransitionStepDone(g, ok)
    \/ \E g \in Gens : TransitionCancelled(g)
    \/ \E k \in 1..MaxSets, ok \in BOOLEAN : DirectDone(k, ok)
    \/ \E v \in NotifValues : OnNotification(v)
    \/ AsyncWillRemoveFromHass
    \/ \E ms \in Intervals : SetStepInterval(ms)

SpecNumber == InitNumber /\ [][NextNumber]_vars

(***************************************************************************)
(* The decoder on buffers of concatenated JSON objects.                    *)
(***************************************************************************)
\* What may stand between two objects and behind the last one.
Separators == {<< >>, <<" ">>, <<"\n">>, <<"\r", "\n">>}
InitText ==
    /\ ClientFresh
    /\ \E n \in 1..MaxObjs :
          /\ objs \in [1..n -> TextMsgs]
          /\ seps \in [1..n -> Separators]
    /\ messages = << >>
    /\ plain = << >>
    /\ decpc = "input"
    /\ SetterIdle
    /\ NumberIdle

NextText == DecodeBuffer

SpecText == InitText /\ [][NextText]_vars

(***************************************************************************)
(* Commands on a connected client whose device may close the connection.   *)
(***************************************************************************)
NextEof ==
    \/ \E c \in Callers : Call(c)
    \/ \E c \in Callers : LockAcquired(c)
    \/ \E c \in Callers : DrainDone(c)
    \/ \E c \in Callers : DrainFailed(c)
    \/ \E c \in Callers : Resume(c)
    \/ \E c \in Callers : Timeout(c)
    \/ \E t \in Tasks : \E m \in DeviceMsgs : ListenerData(t, m)
    \/ \E t \in Tasks : ListenerIdle(t)
    \/ PeerClose

SpecEof == InitConnected /\ [][NextEof]_vars

(***************************************************************************)
(* Properties.                                                             *)
(***************************************************************************)
\* Call k has its id and has not ended: the command is pending.
Pend(k) == callId[k] # 0 /\ outcome[k] = "none"
\* The position of call k in the order of id assignment.
Rank(k) == CHOOSE i \in 1..Len(assigned) : assigned[i] = k
\* How many ids the client had handed out when call k got its own.
SeqNo(k) == IF k = Earlier THEN EarlierRank ELSE base + Rank(k)
Abs(n) == IF n < 0 THEN 0 - n ELSE n
\* ACK in any letter case, spelled out.
AnyCaseAck(v) ==
    /\ v.t = "str"
    /\ Len(v.s) = 3
    /\ v.s[1] \in {"a", "A"}
    /\ v.s[2] \in {"c", "C"}
    /\ v.s[3] \in {"k", "K"}

\* C1: every async_send_command call returns (its caller leaves the call), and
\* a call that met no disconnect, no failed connection attempt, no failed
\* drain() and no cancellation returns the response or "no response".
C1_Returns ==
    /\ \A c \in Callers : (pc[c] # "idle") ~> (pc[c] = "idle")
    /\ [](\A k \in Calls :
            (outcome[k] # "none" /\ nfaults = 0 /\ ndisc = 0)
                => outcome[k] \in {"response", "noresponse"})

\* One call was answered and one ran into the response timeout.
C1_Witness ==
    \E k1, k2 \in Calls :
        /\ outcome[k1] = "response"
        /\ outcome[k2] = "noresponse"
        /\ nfaults = 0
        /\ ndisc = 0

\* C2: a future is only resolved by a result message carrying the id that was
\* assigned to its call, and a call returns a response only from its resolved
\* future.
C2_MatchingId ==
    \A k \in Calls :
        /\ fut[k] = "result" => (callId[k] # 0 /\ resp[k] = callId[k])
        /\ outcome[k] = "response" => fut[k] = "result"

\* The later of two commands was answered while the earlier is still pending.
C2_Witness ==
    \E k1, k2 \in Calls :
        /\ callId[k1] # 0
        /\ callId[k1] < callId[k2]
        /\ fut[k1] = "pending"
        /\ outcome[k2] = "response"
        /\ resp[k2] = callId[k2]

\* C3: every entry of the Pending Command Table belongs to a call that is
\* still in progress (its caller is between the registration and the return).
C3_NoLeak ==
    \A e \in pending :
        \E c \in Callers : cur[c] = e[2] /\ pc[c] \in {"drain", "wait"}

\* async_disconnect returns in this step.
DisconnectReturns == dpc' = "idle" /\ (dpc # "idle" \/ ndisc' # ndisc)

\* C4 as stated: no call that was pending when async_disconnect was called
\* returns a response or "no response".
C4_PendingAtCall ==
    \A k \in snap : outcome[k] \notin {"response", "noresponse"}

\* C4, amended: the step in which async_disconnect returns fails every future
\* that is still pending in the table and leaves the table empty, and a call
\* whose future was failed returns neither a response nor "no response".
C4_PendingAtTeardown ==
    /\ [][DisconnectReturns =>
            /\ pending' = {}
            /\ \A k \in Calls :
                 (k \in Registered /\ fut[k] = "pending") => fut'[k] = "exception"]_vars
    /\ [](\A k \in Calls :
            fut[k] = "exception" => outcome[k] \notin {"response", "noresponse"})

\* A disconnect failed two waiting callers.
C4_Witness ==
    \E k1, k2 \in Calls :
        /\ k1 # k2
        /\ fut[k1] = "exception" /\ outcome[k1] = "connerr"
        /\ fut[k2] = "exception" /\ outcome[k2] = "connerr"
        /\ dpc = "idle"
        /\ ndisc > 0
        /\ pending = {}

\* C5: the step in which a call returns "no response" removes the call's entry
\* from the table and changes nothing of the connection or the listener.
C5_Timeout ==
    [][\A c \in Callers :
         (pc[c] = "wait" /\ outcome[cur[c]] = "none" /\ outcome'[cur[c]] = "noresponse")
            => /\ \A e \in pending' : e[1] # callId[cur[c]]
               /\ UNCHANGED <<connected, listening, stream, handle, task>>]_vars

\* After a call timed out, a later one was sent on the same connection and
\* answered.
C5_Witness ==
    \E k1, k2 \in Calls :
        /\ outcome[k1] = "noresponse"
        /\ outcome[k2] = "response"
        /\ callId[k2] > callId[k1]
        /\ ndisc = 0
        /\ connected

C7_Ids ==
    /\ \A i \in 1..Len(assigned) : callId[assigned[i]] = NthId(base + i)
    /\ \A j \in 1..Len(wire) :
        /\ wire[j].id = callId[wire[j].call]
        /\ CMD_ID_INITIAL <= wire[j].id /\ wire[j].id <= CMD_ID_MAX
        /\ wire[j].id # SuppliedId(wire[j].caller)

\* The command after the one with id CMD_ID_MAX went out with CMD_ID_INITIAL.
C7_Witness ==
    \E j \in 1..(Len(wire) - 1) :
        /\ wire[j].id = CMD_ID_MAX
        /\ wire[j + 1].id = CMD_ID_INITIAL

\* C8: at most one caller is between the id assignment and the end of
\* drain(), that caller is the holder of the send lock, no caller waiting for
\* its response holds it, and commands are written in the order of their ids.
C8_SendLock ==
    /\ Cardinality({c \in Callers : pc[c] = "drain"}) <= 1
    /\ \A c \in Callers : pc[c] = "drain" <=> lockHolder = c
    /\ \A c \in Callers : pc[c] = "wait" => lockHolder # c
    /\ \A i, j \in 1..Len(wire) : i < j => Rank(wire[i].call) < Rank(wire[j].call)
    /\ \A i, j \in 1..Len(assigned) : i < j => callId[assigned[i]] < callId[assigned[j]]

\* A second command was written while the first caller waits for its response.
C8_Witness ==
    \E c1, c2 \in Callers :
        /\ pc[c1] = "wait" /\ fut[cur[c1]] = "pending"
        /\ pc[c2] = "drain"
        /\ Len(wire) = 2
        /\ wire[2].call = cur[c2]

\* C9: the cached volume, rear level and bass level are within their ranges.
C9_InRange ==
    /\ MIN_VOLUME <= cache.volume /\ cache.volume <= MAX_VOLUME
    /\ MIN_REAR_LEVEL <= cache.rear_level /\ cache.rear_level <= MAX_REAR_LEVEL
    /\ MIN_BASS_LEVEL <= cache.bass_level /\ cache.bass_level <= MAX_BASS_LEVEL

\* C10: processing a message whose value is ACK in any letter case leaves the
\* cache as it was.
C10_AckNoChange ==
    [][AnyCaseAck(lastMsg'.value) => cache' = cache]_vars

\* A lower-case ACK for the volume was processed after the volume was changed.
C10_Witness ==
    /\ lastMsg.feature = FEATURE_VOLUME
    /\ lastMsg.value = StrV(<<"a", "c", "k">>)
    /\ cache.volume = MAX_VOLUME
    /\ cache.power = ON

\* The number a valid numeric value stands for.
NumberOf(v) == IF v.t = "int" THEN v.n ELSE DigitsValue(v.s)
\* Message m carries a known feature and a valid value that is not ACK.
ValidUpdate(m) ==
    /\ ~AnyCaseAck(m.value)
    /\ \/ m.feature = FEATURE_POWER /\ m.value.t = "str"
       \/ /\ m.feature = FEATURE_VOLUME
          /\ m.value.t = "int" \/ (m.value.t = "str" /\ AllDigits(m.value.s))
          /\ MIN_VOLUME <= NumberOf(m.value) /\ NumberOf(m.value) <= MAX_VOLUME
       \/ /\ m.feature = FEATURE_REAR_LEVEL
          /\ m.value.t = "int"
          /\ MIN_REAR_LEVEL <= m.value.n /\ m.value.n <= MAX_REAR_LEVEL
\* The cached value of message m's feature is the value of m.
CachedFrom(c, m) ==
    CASE m.feature = FEATURE_POWER -> c.power = m.value.s
      [] m.feature = FEATURE_VOLUME -> c.volume = NumberOf(m.value)
      [] m.feature = FEATURE_REAR_LEVEL -> c.rear_level = m.value.n
      [] OTHER -> FALSE

\* C11: a message with a known feature and a valid value that is not ACK
\* leaves its value in the cache, whatever its type and whether or not its id
\* matches a pending command, and processing the same message again leaves
\* the cache as it is.
C11_CacheFollowsMessage ==
    [][/\ (lastMsg' # lastMsg /\ ValidUpdate(lastMsg')) => CachedFrom(cache', lastMsg')
       /\ (lastMsg' = lastMsg /\ fut' = fut) => cache' = cache]_vars

\* A result for an id that is not pending replaced a cached value while a
\* command is still pending, after a result resolved another command.
C11_Witness ==
    /\ lastMsg = Msg("result", CMD_ID_INITIAL + 1, FEATURE_VOLUME, IntV(100))
    /\ cache.volume = 100
    /\ cache.power = ON
    /\ fut[Earlier] = "result"

\* C16: the client never has more than one open TCP connection.
C16_OneConnection == nopen <= 1

\* The reader loops that were started and have not been stopped.
Loops == {t \in Tasks : task[t] \in {"created", "reading"}}
\* The client as async_disconnect is meant to leave it.
Disconnected ==
    /\ ~connected
    /\ ~listening
    /\ stream = "none"
    /\ Loops = {}
    /\ pending = {}

\* C17: async_disconnect called on a disconnected client changes nothing, and
\* whenever async_disconnect returns the client is not connected, not
\* listening, has no reader loop and has an empty Pending Command Table.
C17_DisconnectSafe ==
    [][DisconnectReturns =>
         /\ Disconnected'
         /\ Disconnected => UNCHANGED <<clientVars, pending, fut>>]_vars

\* C18: once async_disconnect has returned and nothing else is going on, an
\* async_send_command call on the client, which has no streams, begins with a
\* connection attempt.
C18_Reconnects ==
    [][\A c \in Callers :
         (/\ pc[c] = "idle" /\ cur'[c] # cur[c]
          /\ ndisc > 0 /\ dpc = "idle" /\ stream = "none"
          /\ \A d \in Callers : pc[d] = "idle")
            => pc'[c] = "open"]_vars

\* C19: at most one reader loop exists at any time.
C19_OneLoop == Cardinality(Loops) <= 1

\* The value a getter's caller counts as valid for the feature it asked for.
ValidValue(c, v) ==
    IF c = 1 THEN v \in {StrV(ON), StrV(OFF)}
    ELSE v.t = "int" /\ MIN_VOLUME <= v.n /\ v.n <= MAX_VOLUME

\* C12: when a typed getter returns after the device answered its command
\* with a result for the getter's feature carrying a valid value v, it returns
\* v and the cached value of the feature is v at that moment; when no
\* response arrived, it returns the cached value and leaves the cache as it is.
C12_Getter ==
    [][\A c \in Callers :
         (pc[c] = "wait" /\ pc'[c] = "idle") =>
            LET k == cur[c]
                m == reply[k]
            IN  /\ (/\ outcome'[k] = "response"
                    /\ m.type = "result"
                    /\ m.feature = GetterFeature(c)
                    /\ ValidValue(c, m.value))
                     => /\ ret'[k] = m.value
                        /\ GetterValue(cache', c) = m.value
                /\ outcome'[k] = "noresponse"
                     => /\ ret'[k] = GetterValue(cache, c)
                        /\ cache' = cache]_vars

\* async_get_power has returned "on" for a reply with value "on" although a
\* notification had set the cached power to "off" in between, and
\* async_get_volume has returned the cached volume after a timeout.
C12_Witness ==
    \E k \in Calls, j \in Calls :
        /\ outcome[k] = "response"
        /\ reply[k] = Msg("result", callId[k], FEATURE_POWER, StrV(ON))
        /\ ret[k] = StrV(ON)
        /\ cache.power = ON
        /\ outcome[j] = "noresponse"
        /\ ret[j] = IntV(100)
        /\ cache.volume = 100

\* The callbacks invoked for the n-th processed message, in order.
Invoked(n) ==
    LET starts == SelectSeq(log, LAMBDA e : e.n = n /\ e.ev = "start")
    IN  [i \in 1..Len(starts) |-> starts[i].h]
\* The loop is through with the n-th processed message.
Finished(n) == hist[n].st \in {"done", "aborted"}
\* No callback starts before the one invoked before it has returned or raised.
OneAtATime ==
    \A i \in 1..Len(log) :
        log[i].ev = "start" /\ i < Len(log)
            => /\ log[i + 1].ev \in {"end", "raise"}
               /\ log[i + 1].h = log[i].h
               /\ log[i + 1].n = log[i].n

\* C13: a notify message for a feature invokes the callbacks registered for
\* that feature, each once per registration and in registration order, a
\* coroutine callback being awaited to its end before the next callback
\* starts; a result message invokes no callback, nor is a callback registered
\* for another feature invoked.
C13_Dispatch ==
    /\ OneAtATime
    /\ \A n \in 1..Len(hist) :
          Finished(n) =>
             Invoked(n) = IF hist[n].type = "notify" THEN hist[n].regs1 ELSE << >>

\* C14: a callback that raises, whatever the error, is followed in the same
\* dispatch by the next callback registered for the feature, and when it was
\* the last one the dispatch returns to the loop, which goes on.
C14_Isolation ==
    [][\A i \in (Len(log) + 1)..Len(log') :
          log'[i].ev = "raise" =>
             LET n == log'[i].n
                 j == Len(SelectSeq(SubSeq(log', 1, i),
                                    LAMBDA e : e.n = n /\ e.ev = "start"))
             IN  IF j < Len(CallbacksFor(hist'[n].feature))
                 THEN /\ i < Len(log')
                      /\ log'[i + 1] = Ev("start", CallbacksFor(hist'[n].feature)[j + 1], n)
                 ELSE hist'[n].st = "done"]_vars

\* C15: a notification whose dispatch begins after
\* unregister_notification_callback has returned, and during which the
\* registry does not change, invokes no callback that was unregistered and
\* invokes every callback that is registered for its feature, in the
\* order of registration.
C15_Unregister ==
    /\ \A f \in DispFeatures : \A i \in 1..Len(callbacks[f]) : callbacks[f][i] \notin gone[f]
    /\ \A n \in 1..Len(hist) :
          (Finished(n) /\ hist[n].type = "notify" /\ hist[n].after /\ ~hist[n].touched)
              => Invoked(n) = hist[n].regs0

\* C20: a loop that is reading or awaiting a callback, on a client that is
\* connected and listening, does not end: neither a read timeout, an empty
\* read, a socket error, text that is no JSON, a JSON value that is no
\* object, nor an error in the processing of a message or in a callback
\* ends it.
C20_LoopKeepsRunning ==
    [][\A t \in Tasks :
          (task[t] \in {"reading", "awaiting"} /\ LoopGoesOn) => task'[t] # "done"]_vars

\* C21: when the reader sees end-of-stream (its read returns no data on a
\* connection the peer has closed) while commands are pending, every command
\* pending at that moment is failed with a connection error and the client is
\* no longer connected.
C21_EofFailsPending ==
    [][\A t \in Tasks :
          (/\ task[t] = "reading" /\ stream = "eof" /\ nreads' # nreads
           /\ \E k \in Registered : fut[k] = "pending")
             => /\ ~connected'
                /\ \A k \in Registered : fut[k] = "pending" => fut'[k] = "exception"]_vars

\* The pieces of a read that precede its first piece of invalid JSON.
ValidPrefix(chunk) ==
    LET bad == {i \in 1..Len(chunk) : chunk[i].js = "garbage"}
    IN  IF bad = {} THEN chunk
        ELSE SubSeq(chunk, 1, (CHOOSE i \in bad : \A j \in bad : i <= j) - 1)

\* C22: a read that holds invalid JSON has the effect of a read of the
\* objects that precede the invalid text, in their order: those are processed
\* as in a read of their own, the rest of the read is dropped (a read that
\* begins with invalid text changes nothing), no error ends the loop, and the
\* connection and the table of pending commands stay as they were.
C22_InvalidJson ==
    [][\A t \in Tasks : \A chunk \in DecodeChunks :
          (ValidPrefix(chunk) # chunk /\ ListenerRead(t, chunk))
             => /\ IF ValidPrefix(chunk) = << >>
                   THEN UNCHANGED <<clientVars, lockVars, counter, pending, callVars, cache,
                                    lastMsg, reply, callbacks, hist, log>>
                   ELSE Settle(t, Drain(Running(ValidPrefix(chunk), 0, log)))
                /\ connected' = connected
                /\ stream' = stream
                /\ pending' = pending
                /\ task'[t] \in {"reading", "awaiting"}]_vars
\* A notification that arrived in a read after one with invalid JSON has
\* been dispatched to a callback, and a command is still pending.
C22_Witness ==
    /\ ndropped > 0
    /\ \E n \in 1..Len(hist) :
          /\ hist[n].lost > 0
          /\ hist[n].type = "notify"
          /\ Finished(n)
          /\ Invoked(n) # << >>
    /\ \E k \in Registered : fut[k] = "pending"

\* C23: the decoder, given the JSON texts of k >= 1 messages with any of
\* nothing, a blank, a newline or CR LF behind each, returns exactly those k
\* messages in their order, and returns the same as for the texts with
\* nothing between them.
C23_Concatenated ==
    decpc = "decoded" => messages = objs /\ messages = plain
\* Three objects were decoded from a buffer in which some are separated and
\* some are not.
C23_Witness ==
    /\ decpc = "decoded"
    /\ Len(messages) = MaxObjs
    /\ seps[1] = << >>
    /\ seps[2] = <<"\r", "\n">>
    /\ seps[MaxObjs] = <<"\n">>

\* The ranges as the interface states them.
OutOfRange(f, v) ==
    IF f = FEATURE_VOLUME THEN v < 0 \/ v > 100 ELSE v < -10 \/ v > 10
\* C24: a ranged setter called with a value outside its range raises
\* ValueError to its caller at once and does nothing else: no call of
\* async_send_command, no connection opened, no command id taken, no pending
\* entry, nothing written, the cache unchanged.
C24_RangeChecked ==
    [][\A c \in Callers, f \in RangedFeatures, v \in SetValues :
          (OutOfRange(f, v) /\ SetCall(c, f, v))
             => /\ err'[c] = "ValueError"
                /\ pc'[c] = "idle"
                /\ UNCHANGED <<clientVars, lockVars, counter, pending, callVars, histVars,
                               cache, lastMsg>>]_vars
\* A setter has raised ValueError on a client that never opened a connection
\* nor wrote a command.
C24_Witness ==
    /\ \E c \in Callers : err[c] = "ValueError"
    /\ nopen = 0
    /\ ~connected
    /\ wire = << >>
    /\ counter = CMD_ID_INITIAL

\* The step commands of generation g, in the order sent.
SentBy(g) == SelectSeq(sent, LAMBDA e : e.g = g)
\* C25: a call of async_set_native_value with step interval <= 0, or with the
\* target equal to the displayed value, sends one command, the target, and
\* starts no task; any other call starts a task whose commands are the unit
\* steps from the displayed value toward the target in order, each after a
\* sleep of the interval, all of them and ending with the target once the
\* task has ended without a failure or a cancellation, and none after the
\* step that failed.
C25_Steps ==
    /\ Len(SentBy(0)) = Len(direct)
    /\ \A n \in 1..Len(calls) :
          LET c == calls[n]
              q == SentBy(c.g)
              steps == IF c.v > c.cur THEN c.v - c.cur ELSE c.cur - c.v
          IN  IF c.ms <= 0 \/ c.cur = c.v
              THEN /\ c.g = 0
                   /\ SentBy(0)[c.k].v = c.v
                   /\ \A m \in 1..Len(calls) : m # n => calls[m].k # c.k
              ELSE /\ c.g # 0 /\ c.k = 0
                   /\ Len(q) <= steps
                   /\ \A j \in 1..Len(q) :
                         /\ q[j].v = (IF c.v > c.cur THEN c.cur + j ELSE c.cur - j)
                         /\ q[j].slept = c.ms
                   /\ (tr[c.g].st = "done" /\ ~tr[c.g].cancel /\ ~tr[c.g].failed)
                         => Len(q) = steps /\ q[steps].v = c.v
                   /\ tr[c.g].failed => tr[c.g].st = "done" /\ Len(q) = tr[c.g].i
\* One transition went from 50 to 53 in three steps, a second one back down
\* was left after its first step failed, and a direct set was made.
C25_Witness ==
    /\ \E g \in Gens :
          /\ tr[g].st = "done" /\ ~tr[g].cancel /\ ~tr[g].failed
          /\ [j \in 1..Len(SentBy(g)) |-> SentBy(g)[j].v] = <<51, 52, 53>>
    /\ \E g \in Gens :
          /\ tr[g].failed
          /\ [j \in 1..Len(SentBy(g)) |-> SentBy(g)[j].v] = <<52>>
    /\ Len(direct) = 1

\* C26: as long as no notification has changed the displayed value, every
\* step command a transition sends differs by exactly one from the command
\* sent before it, and the first command from the device's volume.
C26_NoJump ==
    nnotifs = 0 =>
        \A n \in 1..Len(sent) :
            sent[n].g # 0 =>
                PyAbs(sent[n].v - (IF n = 1 THEN device0 ELSE sent[n - 1].v)) = 1

\* The transitions that are under way: the task exists, has not ended and has
\* not been cancelled.
ActiveGens == {g \in Gens : tr[g].st \in {"created", "sleeping", "sending"} /\ ~tr[g].cancel}
\* C27: at most one transition is under way at any time, and a transition
\* that was cancelled (by a new transition, a direct set or the removal of
\* the entity) sends no step command from then on, wherever the cancellation
\* met it.
C27_OneTransition ==
    [][/\ Cardinality(ActiveGens') <= 1
       /\ \A g \in Gens : tr[g].cancel => SentBy(g)' = SentBy(g)]_vars
\* One transition was cancelled in the middle of a step command and one in
\* its sleep, both have ended, and a third one has sent a step.
C27_Witness ==
    \E g1, g2, g3 \in Gens :
        /\ tr[g1].at = "sending" /\ tr[g1].st = "done"
        /\ tr[g2].at = "sleeping" /\ tr[g2].st = "done"
        /\ g3 \in ActiveGens /\ SentBy(g3) # << >>

\* C28: a notification handed to the entity while a transition is under way
\* leaves the displayed value as it is; one that carries a valid volume (an
\* integer, or text that int() accepts, within 0..100) while no transition is
\* under way sets the displayed value to that volume.
C28_Notification ==
    [][\A v \in NotifValues :
          OnNotification(v)
            => IF ActiveGens # {}
               THEN native_value' = native_value
               ELSE (PyInt(v).ok /\ PyInt(v).n \in 0..100) => native_value' = PyInt(v).n]_vars
\* A notification was dropped during a transition: the displayed value is
\* the target while the device has been sent one step only.
C28_Witness ==
    /\ Len(notified) = 1
    /\ notified[1].skipped
    /\ notified[1].ok
    /\ \E g \in ActiveGens : native_value = tr[g].end /\ Len(SentBy(g)) = 1 /\ tr[g].end # 51

\* C29: the flag _transition_in_progress is set exactly when a transition is
\* under way; so the end of a superseded generation does not clear the flag
\* of the running one, and the flag is not left set when none is under way.
C29_Flag == transition_in_progress <=> ActiveGens # {}
\* A superseded generation that had begun has ended while its successor is
\* under way, and the flag is set.
C29_Witness ==
    \E g1, g2 \in Gens :
        /\ g1 < g2
        /\ tr[g1].st = "done" /\ tr[g1].at \in {"sleeping", "sending"}
        /\ g2 \in ActiveGens
        /\ tr[g2].st # "created"
        /\ transition_in_progress

\* The times the flag went from set to cleared on behalf of generation g: in
\* the task's own finally, or in the direct set or the removal that
\* cancelled the task.
ClearsOf(g) == {n \in 1..Len(clears) : clears[n].g = g /\ clears[n].was}
\* C30: a generation whose task had begun and has ended, cancelled or not,
\* has had the flag cleared exactly once.
C30_ClearedOnce ==
    \A g \in Gens :
        (tr[g].st = "done" /\ tr[g].i > 0) => Cardinality(ClearsOf(g)) = 1

\* The set commands of async_detect_subwoofer that were handed to the writer.
DetectWritten == {n \in 1..Len(wire) : wire[n].call \in ({det.probe, det.revert} \ {0})}
\* C32: when async_detect_subwoofer has returned, current_level being what
\* async_get_bass_level returned to it: with current_level outside 0..2 it
\* has returned True and sent no set command; otherwise it has sent a set
\* command with value -1, and either that command was answered by a result
\* with value "ACK", a second set command with current_level was sent, True
\* was returned and the cached bass level was current_level at the return,
\* or (another answer, or none) no second command was sent and False was
\* returned.
C32_Detect ==
    (det.pc = "done" /\ det.ret # "raise") =>
        IF det.level < MIN_BASS_LEVEL_NO_SUB \/ det.level > MAX_BASS_LEVEL_NO_SUB
        THEN /\ det.ret = "true"
             /\ det.sets = << >>
             /\ DetectWritten = {}
        ELSE IF /\ outcome[det.probe] = "response"
                /\ reply[det.probe].type = "result"
                /\ reply[det.probe].value = StrV(ACK)
             THEN /\ det.ret = "true"
                  /\ det.sets = <<0 - 1, det.level>>
                  /\ Cardinality(DetectWritten) = 2
                  /\ det.bass = det.level
             ELSE /\ det.ret = "false"
                  /\ det.sets = <<0 - 1>>
                  /\ Cardinality(DetectWritten) = 1
\* The get command was answered with level 2, the probe with ACK and the
\* revert command was answered too: the call has returned True.
C32_Witness ==
    /\ det.pc = "done" /\ det.ret = "true"
    /\ det.sets = <<0 - 1, 2>>
    /\ reply[det.probe].value = StrV(ACK)
    /\ outcome[det.revert] = "response"
    /\ cache.bass_level = 2

\* The commands of async_test_connection that were handed to the writer.
TestWritten == {n \in 1..Len(wire) : wire[n].call = tc.k}
\* C33: when async_test_connection has ended: it has returned True exactly
\* when its command was answered by a result for the power feature carrying
\* the command's id; it has returned False when no answer came in time, when
\* the answer was for another feature, and when async_send_command raised
\* ConnectionError; it has written at most one command, and none while the
\* connection it needed was not yet open; and it has raised only when its
\* own connection attempt failed, when the writer was gone (AttributeError)
\* or when it was cancelled.
C33_TestConnection ==
    /\ (tc.own /\ pc[TestCaller] \in {"open", "settle"})
          => callId[tc.k] = 0 /\ TestWritten = {}
    /\ tc.pc = "done" =>
        /\ tc.ret = "true" <=> /\ outcome[tc.k] = "response"
                               /\ reply[tc.k].type = "result"
                               /\ reply[tc.k].feature = FEATURE_POWER
                               /\ reply[tc.k].id = callId[tc.k]
        /\ outcome[tc.k] = "noresponse" => tc.ret = "false"
        /\ (outcome[tc.k] = "response" /\ reply[tc.k].feature # FEATURE_POWER)
              => tc.ret = "false"
        /\ (outcome[tc.k] = "connerr" /\ callId[tc.k] # 0) => tc.ret = "false"
        /\ Cardinality(TestWritten) <= 1
        /\ tc.ret = "raise"
              => \/ tc.own /\ outcome[tc.k] = "connerr" /\ callId[tc.k] = 0
                 \/ outcome[tc.k] \in {"attrerr", "cancelled"}
\* Called on a client without connection, async_test_connection has
\* connected, sent its command and returned True on the result.
C33_Witness ==
    /\ tc.pc = "done" /\ tc.ret = "true" /\ tc.own
    /\ Cardinality(TestWritten) = 1
    /\ cache.power = ON

\* C34: every step that changes the Feature State Cache is a step of the
\* reader loop processing an inbound message; no step of a caller of a typed
\* getter changes it.
C34_OnlyLoopWrites ==
    [][cache' # cache => \E m \in GetterMsgs : ListenerData(1, m)]_vars

\* C35: a getter that resumes with the response to its command, a valid
\* value for its feature which the loop applied to the cache when it resolved
\* the command, leaves the cache as it is: whatever the loop has applied
\* since then is not replaced by that earlier value.
C35_InOrder ==
    [][\A c \in Callers :
          (/\ GetterResume(c)
           /\ fut[cur[c]] = "result"
           /\ reply[cur[c]].feature = GetterFeature(c)
           /\ ValidUpdate(reply[cur[c]]))
            => cache' = cache]_vars

\* C36: a setter that has returned has returned True exactly when its
\* command was answered by a result with value "ACK", and then the cached
\* value of its feature is the value it set; when it has returned False (the
\* answer was not ACK, or none arrived) the cached value of its feature is
\* what it was when the setter was called.
C36_Setter ==
    \A c \in Callers :
        setting[c].ret \in {"true", "false"} =>
            /\ setting[c].ret = "true"
                  <=> /\ outcome[setting[c].k] = "response"
                      /\ reply[setting[c].k].type = "result"
                      /\ reply[setting[c].k].value = StrV(ACK)
            /\ setting[c].ret = "true" => setting[c].after = setting[c].v
            /\ setting[c].ret = "false" => setting[c].after = setting[c].before

\* C37: when async_disconnect has closed the writer, the reader loop it
\* cancelled has ended, and no reader loop is suspended in a read of the
\* closed stream or begins one.
C37_StoppedBeforeClose ==
    /\ (dpc = "wait_closed" /\ dtask # 0) => task[dtask] = "done"
    /\ stream = "closing" => \A t \in Tasks : task[t] \notin {"reading", "awaiting"}

\* A callback has been invoked and has not returned.
CallbackRunning == log # << >> /\ log[Len(log)].ev = "start"
\* C38: in a step in which a callback that is running does not return, no
\* pending command is resolved, the cache is not changed and no further
\* message is processed; so a command sent while a callback runs gets its
\* answer only in or after the step in which the callback returns.
C38_OneMessageAtATime ==
    [][(CallbackRunning /\ log' = log)
          => /\ \A k \in Calls : fut'[k] = "result" => fut[k] = "result"
             /\ cache' = cache
             /\ Len(hist') = Len(hist)
             /\ batch' = batch]_vars
\* A read has delivered a notification and, behind it, the answer to a
\* command: the callback of the notification is running, the answer is still
\* in the batch and the command is still pending.
C38_Witness ==
    /\ CallbackRunning
    /\ \E t \in Tasks : task[t] = "awaiting"
    /\ \E c \in Callers :
          /\ pc[c] = "wait" /\ fut[cur[c]] = "pending"
          /\ batch = <<Obj(Msg("result", callId[cur[c]], FEATURE_VOLUME, IntV(100)))>>
    /\ cache.volume = 0

\* C39: every callback invoked for a notify message with a valid value finds
\* that value in the cache, and a command's future is resolved in a step
\* after which the cache holds the value of its result message (if valid),
\* so that the caller resumes after the update.
C39_CacheFirst ==
    [][/\ \A n \in 1..Len(hist') :
             LET e == hist'[n]
             IN  (e.type = "notify" /\ ValidUpdate(Msg(e.type, 0, e.feature, e.value)))
                    => \A i \in 1..Len(e.seen) :
                          e.seen[i] = CacheField(UpdateInternalState(InitialCache, e.feature,
                                                                     e.value), e.feature)
       /\ \A k \in Calls :
             (fut[k] = "pending" /\ fut'[k] = "result" /\ ValidUpdate(reply'[k]))
                => \E n \in (Len(hist) + 1)..Len(hist') :
                      /\ hist'[n].type = "result"
                      /\ hist'[n].value = reply'[k].value
                      /\ CachedFrom(hist'[n].applied, reply'[k])]_vars

\* C40: a value is applied to the cached bass level only if it is within the
\* range of the installation: 0..2 once async_detect_subwoofer has found no
\* subwoofer, -10..10 otherwise; any other value leaves the cache as it was.
C40_RangeBySubwoofer ==
    [][cache'.bass_level # cache.bass_level
          => IF det.pc = "done" /\ det.ret = "false"
             THEN /\ MIN_BASS_LEVEL_NO_SUB <= cache'.bass_level
                  /\ cache'.bass_level <= MAX_BASS_LEVEL_NO_SUB
             ELSE /\ MIN_BASS_LEVEL <= cache'.bass_level
                  /\ cache'.bass_level <= MAX_BASS_LEVEL]_vars

\* C31: when a call of async_set_native_value starts a transition, then at
\* its return the displayed value is the target, the task of the transition
\* has not begun and no step command of it has been sent.
C31_TargetAtOnce ==
    [][\A v \in TargetVolumes :
          (AsyncSetNativeValue(v) /\ transition_generation' # transition_generation)
            => /\ native_value' = v
               /\ tr'[transition_generation'].st = "created"
               /\ tr'[transition_generation'].end = v
               /\ \A n \in 1..Len(sent') : sent'[n].g # transition_generation'
               /\ sent' = sent]_vars
\* A transition from 50 to 53 has been started and its task has not begun:
\* the displayed value is 53 and nothing has been sent.
C31_Witness ==
    /\ Len(calls) = 1
    /\ calls[1].g = 1 /\ calls[1].cur = 50 /\ calls[1].v = 53
    /\ tr[1].st = "created"
    /\ native_value = 53
    /\ sent = << >>
====
